---- MODULE Spec2Model ----
(***************************************************************************)
(* Producer OS engine (producer_os/engine.py) and its style service        *)
(* (producer_os/styles_service.py): filename classification, routing of    *)
(* inbox files into the hub, undo of the last move run.                    *)
(*                                                                         *)
(* Names (file, folder, bucket, pattern names) are TLA+ strings; the       *)
(* character-level string operations of the code (lower, count,           *)
(* startswith, endswith) are computed on the character sequence of a name, *)
(* given by the table Chars.                                               *)
(***************************************************************************)
EXTENDS Integers, Sequences, FiniteSets, TLC

VARIABLES
  inbox,      \* the tree below inbox_dir: [files, dirs]
  hub,        \* the tree below hub_dir: [files, dirs] (the files of logs/<run-id>
              \* are kept in history)
  clock,      \* datetime.now(), counted in calls started
  history,    \* one record per call of run / undo_last_run, oldest first
  pre,        \* the inbox, the hub and roots when the last call began
  cname,      \* classification under test: the filename, as a sequence of tokens
  cresult,    \* classification under test: the result, or NotClassified
  roots,      \* whether inbox_dir and hub_dir exist: [inbox, hub]
  hints_file, \* bucket_hints.json in the configuration directory
  hints_io,   \* the last call of save_bucket_hints / load_bucket_hints
  config_in,  \* the file read by load_config / load_styles, its schema file,
              \* and whether the jsonschema library is installed
  config_out, \* the last call of load_config / load_styles and its outcome
  page,       \* the review state of RunPage: rows, overrides, hints, stale flag
  style_io    \* StyleService under test: its styles, _reported_missing, the
              \* warnings printed and the last call of resolve_style

vars == <<inbox, hub, clock, history, pre, cname, cresult, roots, hints_file, hints_io,
          config_in, config_out, page, style_io>>
engineVars == <<inbox, hub, clock, history, pre, roots>>
classifyVars == <<cname, cresult>>
hintVars == <<hints_file, hints_io>>
configVars == <<config_in, config_out>>
pageVars == <<page>>
styleVars == <<style_io>>
serviceVars == <<hints_file, hints_io, config_in, config_out, page, style_io>>

-----------------------------------------------------------------------------
(* Bounds *)
MaxTokens == 3   \* tokens in a classified filename
MaxFiles == 3    \* files initially in the inbox
MaxOps == 2      \* run / undo_last_run calls in a behaviour
MaxHintTokens == 2  \* tokens in one keyword list of the bucket hints
MaxFailures == 1 \* file operations that fail in a behaviour
MaxUndoFiles == 2  \* files initially in the inbox, where undo_last_run is explored
MaxUndoOps == 3    \* run / undo_last_run calls in such a behaviour
MaxStyleCalls == 3 \* resolve_style / write_nfo calls on one style service
MaxStyleEntries == 2  \* entries in one table of the styles

-----------------------------------------------------------------------------
(* Strings *)

\* The characters of every name the model uses.
Chars ==
  \* patterns of BUCKET_RULES
     "808" :> <<"8", "0", "8">>
  @@ "808s" :> <<"8", "0", "8", "s">>
  @@ "kick" :> <<"k", "i", "c", "k">>
  @@ "kicks" :> <<"k", "i", "c", "k", "s">>
  @@ "clap_fx" :> <<"c", "l", "a", "p", "_", "f", "x">>
  @@ "08" :> <<"0", "8">>
  @@ "snare" :> <<"s", "n", "a", "r", "e">>
  @@ "snares" :> <<"s", "n", "a", "r", "e", "s">>
  @@ "clap" :> <<"c", "l", "a", "p">>
  @@ "claps" :> <<"c", "l", "a", "p", "s">>
  @@ "hihat" :> <<"h", "i", "h", "a", "t">>
  @@ "hi-hat" :> <<"h", "i", "-", "h", "a", "t">>
  @@ "hat" :> <<"h", "a", "t">>
  @@ "hats" :> <<"h", "a", "t", "s">>
  @@ "perc" :> <<"p", "e", "r", "c">>
  @@ "percs" :> <<"p", "e", "r", "c", "s">>
  @@ "percussion" :> <<"p", "e", "r", "c", "u", "s", "s", "i", "o", "n">>
  @@ "cymbal" :> <<"c", "y", "m", "b", "a", "l">>
  @@ "cymbals" :> <<"c", "y", "m", "b", "a", "l", "s">>
  @@ "crash" :> <<"c", "r", "a", "s", "h">>
  @@ "ride" :> <<"r", "i", "d", "e">>
  @@ "bell" :> <<"b", "e", "l", "l">>
  @@ "bass" :> <<"b", "a", "s", "s">>
  @@ "lead" :> <<"l", "e", "a", "d">>
  @@ "leads" :> <<"l", "e", "a", "d", "s">>
  @@ "vox" :> <<"v", "o", "x">>
  @@ "vocal" :> <<"v", "o", "c", "a", "l">>
  @@ "vocals" :> <<"v", "o", "c", "a", "l", "s">>
  @@ "acapella" :> <<"a", "c", "a", "p", "e", "l", "l", "a">>
  @@ "fx" :> <<"f", "x">>
  @@ "effect" :> <<"e", "f", "f", "e", "c", "t">>
  @@ "effects" :> <<"e", "f", "f", "e", "c", "t", "s">>
  @@ "sweep" :> <<"s", "w", "e", "e", "p">>
  @@ "sweeps" :> <<"s", "w", "e", "e", "p", "s">>
  @@ "riser" :> <<"r", "i", "s", "e", "r">>
  @@ "risers" :> <<"r", "i", "s", "e", "r", "s">>
  @@ "impact" :> <<"i", "m", "p", "a", "c", "t">>
  @@ "impacts" :> <<"i", "m", "p", "a", "c", "t", "s">>
  @@ "drumloop" :> <<"d", "r", "u", "m", "l", "o", "o", "p">>
  @@ "drum_loop" :> <<"d", "r", "u", "m", "_", "l", "o", "o", "p">>
  @@ "drum loop" :> <<"d", "r", "u", "m", " ", "l", "o", "o", "p">>
  @@ "drum-loop" :> <<"d", "r", "u", "m", "-", "l", "o", "o", "p">>
  @@ "loop drum" :> <<"l", "o", "o", "p", " ", "d", "r", "u", "m">>
  @@ "loop_drums" :> <<"l", "o", "o", "p", "_", "d", "r", "u", "m", "s">>
  @@ "melodic loop" :> <<"m", "e", "l", "o", "d", "i", "c", " ", "l", "o", "o", "p">>
  @@ "melodyloop" :> <<"m", "e", "l", "o", "d", "y", "l", "o", "o", "p">>
  @@ "melody_loop" :> <<"m", "e", "l", "o", "d", "y", "_", "l", "o", "o", "p">>
  @@ "melody loop" :> <<"m", "e", "l", "o", "d", "y", " ", "l", "o", "o", "p">>
  @@ "loop melody" :> <<"l", "o", "o", "p", " ", "m", "e", "l", "o", "d", "y">>
  @@ "melod" :> <<"m", "e", "l", "o", "d">>
  @@ "chord" :> <<"c", "h", "o", "r", "d">>
  @@ "chords" :> <<"c", "h", "o", "r", "d", "s">>
  @@ "guitar loop" :> <<"g", "u", "i", "t", "a", "r", " ", "l", "o", "o", "p">>
  @@ "piano loop" :> <<"p", "i", "a", "n", "o", " ", "l", "o", "o", "p">>
  @@ ".mid" :> <<".", "m", "i", "d">>
  @@ "mid file" :> <<"m", "i", "d", " ", "f", "i", "l", "e">>
  \* ignore_rules
  @@ "__MACOSX" :> <<"_", "_", "M", "A", "C", "O", "S", "X">>
  @@ ".DS_Store" :> <<".", "D", "S", "_", "S", "t", "o", "r", "e">>
  @@ "._" :> <<".", "_">>
  \* bucket and category names
  @@ "Kicks" :> <<"K", "i", "c", "k", "s">>
  @@ "KICKS" :> <<"K", "I", "C", "K", "S">>
  @@ "samples" :> <<"s", "a", "m", "p", "l", "e", "s">>
  @@ "SAMPLES" :> <<"S", "A", "M", "P", "L", "E", "S">>
  @@ "Snares" :> <<"S", "n", "a", "r", "e", "s">>
  @@ "Claps" :> <<"C", "l", "a", "p", "s">>
  @@ "HiHats" :> <<"H", "i", "H", "a", "t", "s">>
  @@ "Percs" :> <<"P", "e", "r", "c", "s">>
  @@ "Cymbals" :> <<"C", "y", "m", "b", "a", "l", "s">>
  @@ "Bass" :> <<"B", "a", "s", "s">>
  @@ "Leads" :> <<"L", "e", "a", "d", "s">>
  @@ "Vox" :> <<"V", "o", "x">>
  @@ "FX" :> <<"F", "X">>
  @@ "DrumLoop" :> <<"D", "r", "u", "m", "L", "o", "o", "p">>
  @@ "MelodyLoop" :> <<"M", "e", "l", "o", "d", "y", "L", "o", "o", "p">>
  @@ "MIDI" :> <<"M", "I", "D", "I">>
  @@ "Samples" :> <<"S", "a", "m", "p", "l", "e", "s">>
  @@ "Loops" :> <<"L", "o", "o", "p", "s">>
  @@ "UNSORTED" :> <<"U", "N", "S", "O", "R", "T", "E", "D">>
  \* hub folders of the engine
  @@ "logs" :> <<"l", "o", "g", "s">>
  @@ "Quarantine" :> <<"Q", "u", "a", "r", "a", "n", "t", "i", "n", "e">>
  @@ "UndoConflicts" :> <<"U", "n", "d", "o", "C", "o", "n", "f", "l", "i", "c", "t", "s">>
  \* tokens of the classified names
  @@ "Kick" :> <<"K", "i", "c", "k">>
  @@ "x" :> <<"x">>
  @@ "_" :> <<"_">>
  @@ " " :> <<" ">>
  @@ ".wav" :> <<".", "w", "a", "v">>
  @@ ".WAV" :> <<".", "W", "A", "V">>
  \* inbox entries
  @@ "PackA" :> <<"P", "a", "c", "k", "A">>
  @@ "PackB" :> <<"P", "a", "c", "k", "B">>
  @@ "My808Pack" :> <<"M", "y", "8", "0", "8", "P", "a", "c", "k">>
  @@ "UnknownPack" :> <<"U", "n", "k", "n", "o", "w", "n", "P", "a", "c", "k">>
  @@ "sub" :> <<"s", "u", "b">>
  @@ ".nfo" :> <<".", "n", "f", "o">>
  @@ "kick.nfo" :> <<"k", "i", "c", "k", ".", "n", "f", "o">>
  @@ "kick.wav" :> <<"k", "i", "c", "k", ".", "w", "a", "v">>
  @@ "808_boom.wav" :> <<"8", "0", "8", "_", "b", "o", "o", "m", ".", "w", "a", "v">>
  @@ "weirdo_sample.wav" :> <<"w", "e", "i", "r", "d", "o", "_", "s", "a", "m", "p", "l", "e", ".", "w", "a", "v">>
  @@ "kick_snare.wav" :> <<"k", "i", "c", "k", "_", "s", "n", "a", "r", "e", ".", "w", "a", "v">>
  @@ "KickKickKick_snare.wav" :> <<"K", "i", "c", "k", "K", "i", "c", "k", "K", "i", "c", "k", "_", "s", "n", "a", "r", "e", ".", "w", "a", "v">>
  @@ "._kick.wav" :> <<".", "_", "k", "i", "c", "k", ".", "w", "a", "v">>
  @@ "song.mid" :> <<"s", "o", "n", "g", ".", "m", "i", "d">>
  \* wrapped packs and run ids
  @@ "Loose_1" :> <<"L", "o", "o", "s", "e", "_", "1">>
  @@ "Loose_2" :> <<"L", "o", "o", "s", "e", "_", "2">>
  @@ "Loose_3" :> <<"L", "o", "o", "s", "e", "_", "3">>
  @@ "Loose_4" :> <<"L", "o", "o", "s", "e", "_", "4">>
  @@ "Loose_5" :> <<"L", "o", "o", "s", "e", "_", "5">>
  @@ "Loose_6" :> <<"L", "o", "o", "s", "e", "_", "6">>
  @@ "Loose_7" :> <<"L", "o", "o", "s", "e", "_", "7">>
  @@ "Loose_8" :> <<"L", "o", "o", "s", "e", "_", "8">>
  @@ "Loose_9" :> <<"L", "o", "o", "s", "e", "_", "9">>
  @@ "run_1" :> <<"r", "u", "n", "_", "1">>
  @@ "run_2" :> <<"r", "u", "n", "_", "2">>
  @@ "run_3" :> <<"r", "u", "n", "_", "3">>
  @@ "run_4" :> <<"r", "u", "n", "_", "4">>
  @@ "run_5" :> <<"r", "u", "n", "_", "5">>
  @@ "run_6" :> <<"r", "u", "n", "_", "6">>
  @@ "run_7" :> <<"r", "u", "n", "_", "7">>
  @@ "run_8" :> <<"r", "u", "n", "_", "8">>
  @@ "run_9" :> <<"r", "u", "n", "_", "9">>

\* str.lower() on one character (ASCII letters the model's names use).
LowerChar(c) ==
  CASE c = "K" -> "k"
    [] c = "W" -> "w"
    [] c = "A" -> "a"
    [] c = "V" -> "v"
    [] c = "P" -> "p"
    [] c = "B" -> "b"
    [] c = "M" -> "m"
    [] c = "U" -> "u"
    [] c = "L" -> "l"
    [] c = "S" -> "s"
    [] c = "C" -> "c"
    [] c = "H" -> "h"
    [] c = "F" -> "f"
    [] c = "X" -> "x"
    [] c = "D" -> "d"
    [] c = "I" -> "i"
    [] c = "O" -> "o"
    [] c = "Q" -> "q"
    [] c = "N" -> "n"
    [] c = "R" -> "r"
    [] c = "T" -> "t"
    [] c = "E" -> "e"
    [] OTHER -> c

\* str.lower()
Lower(s) == [i \in 1..Len(s) |-> LowerChar(s[i])]

\* s[i:i+len(p)] == p  (i is 1-based)
MatchAt(s, p, i) ==
  /\ i + Len(p) - 1 <= Len(s)
  /\ \A j \in 1..Len(p) : s[i + j - 1] = p[j]

\* str.startswith
StartsWith(s, p) == MatchAt(s, p, 1)

\* str.endswith
EndsWith(s, p) == Len(p) <= Len(s) /\ MatchAt(s, p, Len(s) - Len(p) + 1)

\* str.count: the number of non-overlapping occurrences of p in s, found
\* scanning from the left, starting at position i.
RECURSIVE CountFrom(_, _, _)
CountFrom(s, p, i) ==
  IF i + Len(p) - 1 > Len(s) THEN 0
  ELSE IF MatchAt(s, p, i) THEN 1 + CountFrom(s, p, i + Len(p))
  ELSE CountFrom(s, p, i + 1)

Count(s, p) == CountFrom(s, p, 1)

-----------------------------------------------------------------------------
(* Classification: ProducerOSEngine._classify_filename *)

\* Rule-registration order of BUCKET_RULES (a dict keeps insertion order).
BucketOrder ==
  <<"808s", "Kicks", "Snares", "Claps", "HiHats", "Percs", "Cymbals", "Bass",
    "Leads", "Vox", "FX", "DrumLoop", "MelodyLoop", "MIDI">>

BUCKET_RULES ==
     "808s" :> <<"808", "808s">>
  @@ "Kicks" :> <<"kick", "kicks">>
  @@ "Snares" :> <<"snare", "snares">>
  @@ "Claps" :> <<"clap", "claps">>
  @@ "HiHats" :> <<"hihat", "hi-hat", "hat", "hats">>
  @@ "Percs" :> <<"perc", "percs", "percussion">>
  @@ "Cymbals" :> <<"cymbal", "cymbals", "crash", "ride", "bell">>
  @@ "Bass" :> <<"bass">>
  @@ "Leads" :> <<"lead", "leads">>
  @@ "Vox" :> <<"vox", "vocal", "vocals", "acapella">>
  @@ "FX" :> <<"fx", "effect", "effects", "sweep", "sweeps", "riser", "risers",
               "impact", "impacts">>
  @@ "DrumLoop" :> <<"drumloop", "drum_loop", "drum loop", "drum-loop",
                     "loop drum", "loop_drums">>
  @@ "MelodyLoop" :> <<"melodic loop", "melodyloop", "melody_loop",
                       "melody loop", "loop melody", "melod", "chord", "chords",
                       "guitar loop", "piano loop">>
  @@ "MIDI" :> <<".mid", "mid file">>

CATEGORY_MAP ==
     "808s" :> "Samples"
  @@ "Kicks" :> "Samples"
  @@ "Snares" :> "Samples"
  @@ "Claps" :> "Samples"
  @@ "HiHats" :> "Samples"
  @@ "Percs" :> "Samples"
  @@ "Cymbals" :> "Samples"
  @@ "Bass" :> "Samples"
  @@ "Leads" :> "Samples"
  @@ "Vox" :> "Samples"
  @@ "FX" :> "Samples"
  @@ "DrumLoop" :> "Loops"
  @@ "MelodyLoop" :> "Loops"
  @@ "MIDI" :> "MIDI"

\* CATEGORY_MAP.get(bucket, "Samples")
CategoryOf(bucket) ==
  IF bucket \in DOMAIN CATEGORY_MAP THEN CATEGORY_MAP[bucket] ELSE "Samples"

\* confidence_threshold = 0.75, in hundredths
ThresholdPct == 75

\* score += 3 for the ".mid" pattern of a name ending in ".mid"
MidBonus == 3

\* candidates = sorted_scores[:3]
MaxCandidates == 3

\* A bucket of None.
None == "None"

\* A confidence is the exact quotient num / den of two integers (den > 0); the
\* code holds its correctly rounded double.
Conf(n, d) == [num |-> n, den |-> d]

\* A threshold test that is strict: confidence > self.confidence_threshold
MeetsThresholdStrict(c) == c.num * 100 > ThresholdPct * c.den

\* confidence >= self.confidence_threshold
MeetsThreshold(c) == c.num * 100 >= ThresholdPct * c.den

\* A contribution of ".mid" that adds the fixed score to the count.
PatternScoreAdded(lower_name, pat) ==
  IF pat = ".mid" /\ EndsWith(lower_name, Chars[".mid"])
  THEN MidBonus + Count(lower_name, Chars[pat])
  ELSE Count(lower_name, Chars[pat])

\* The contribution of one pattern to the score of its bucket.
PatternScore(lower_name, pat) ==
  IF pat = ".mid" /\ EndsWith(lower_name, Chars[".mid"])
  THEN MidBonus
  ELSE Count(lower_name, Chars[pat])

RECURSIVE SumPatterns(_, _, _)
SumPatterns(lower_name, patterns, i) ==
  IF i > Len(patterns) THEN 0
  ELSE PatternScore(lower_name, patterns[i]) + SumPatterns(lower_name, patterns, i + 1)

\* The score of one bucket.
BucketScore(lower_name, bucket) == SumPatterns(lower_name, BUCKET_RULES[bucket], 1)

\* scores: the buckets of score > 0 with their score, in registration order.
RECURSIVE ScoresFrom(_, _)
ScoresFrom(lower_name, i) ==
  IF i > Len(BucketOrder) THEN <<>>
  ELSE LET sc == BucketScore(lower_name, BucketOrder[i])
       IN  (IF sc > 0 THEN <<[bucket |-> BucketOrder[i], score |-> sc]>> ELSE <<>>)
           \o ScoresFrom(lower_name, i + 1)

\* The index of the last item of greatest score.
LastMax(items) ==
  CHOOSE i \in 1..Len(items) :
    /\ \A j \in 1..Len(items) : items[j].score <= items[i].score
    /\ \A j \in (i + 1)..Len(items) : items[j].score < items[i].score

\* The index of the first item of greatest score.
FirstMax(items) ==
  CHOOSE i \in 1..Len(items) :
    /\ \A j \in 1..Len(items) : items[j].score <= items[i].score
    /\ \A j \in 1..(i - 1) : items[j].score < items[i].score

RemoveAt(s, i) == SubSeq(s, 1, i - 1) \o SubSeq(s, i + 1, Len(s))

\* sorted(scores.items(), key=lambda kv: kv[1], reverse=True): a stable sort,
\* so items of equal score keep their order.
RECURSIVE SortedScores(_)
SortedScores(items) ==
  IF items = <<>> THEN <<>>
  ELSE LET i == FirstMax(items)
       IN  <<items[i]>> \o SortedScores(RemoveAt(items, i))

RECURSIVE SumScores(_)
SumScores(items) ==
  IF items = <<>> THEN 0 ELSE Head(items).score + SumScores(Tail(items))

Take(s, n) == SubSeq(s, 1, IF Len(s) < n THEN Len(s) ELSE n)

\* The decision of _classify_filename, given scores (the buckets that scored,
\* in registration order) and sorted_scores.
Decide(scores, sorted_scores) ==
  LET total == SumScores(scores)
      best == sorted_scores[1]
      confidence == IF total > 0 THEN Conf(best.score, total) ELSE Conf(0, 1)
      candidates == Take(sorted_scores, MaxCandidates)
  IN  IF scores = <<>>
      THEN [bucket |-> None, category |-> "UNSORTED", confidence |-> Conf(0, 1),
            candidates |-> <<>>]
      ELSE IF MeetsThreshold(confidence)
      THEN [bucket |-> best.bucket, category |-> CategoryOf(best.bucket),
            confidence |-> confidence, candidates |-> candidates]
      ELSE [bucket |-> None, category |-> "UNSORTED", confidence |-> confidence,
            candidates |-> candidates]

ClassifyScores(scores) == Decide(scores, SortedScores(scores))

\* _classify_filename, on the characters of the filename.
classify_filename(filename) == ClassifyScores(ScoresFrom(Lower(filename), 1))

-----------------------------------------------------------------------------
(* Classification of bounded filenames *)

Tokens == {"kick", "Kick", "snare", "808", "hat", "hihat", "bell", "bass",
           "_", ".wav", ".mid", ".WAV", "clap_fx", "08"}

TokenSeqs == UNION {[1..n -> Tokens] : n \in 0..MaxTokens}

RECURSIVE Flatten(_)
Flatten(toks) ==
  IF toks = <<>> THEN <<>> ELSE Chars[Head(toks)] \o Flatten(Tail(toks))

NotClassified == [bucket |-> "?"]

ClassifyInit == cname \in TokenSeqs /\ cresult = NotClassified

\* One call of _classify_filename.
Classify ==
  /\ cresult = NotClassified
  /\ cresult' = classify_filename(Flatten(cname))
  /\ UNCHANGED cname

-----------------------------------------------------------------------------
(* File system *)

\* A file system (the inbox, or the hub) is a record [files, dirs]: files maps
\* the path of each regular file to its content, dirs is the set of directory
\* paths. A path is the sequence of names below the root; the root is <<>>.
FS(files, dirs) == [files |-> files, dirs |-> dirs]

Last(path) == path[Len(path)]

Parent(path) == SubSeq(path, 1, Len(path) - 1)

IsPrefix(p, path) == Len(p) <= Len(path) /\ SubSeq(path, 1, Len(p)) = p

\* Path.exists()
Exists(fs, path) == path \in DOMAIN fs.files \/ path \in fs.dirs \/ path = <<>>

\* Path.mkdir(parents=True, exist_ok=True)
Mkdirs(fs, path) ==
  FS(fs.files, fs.dirs \cup {SubSeq(path, 1, n) : n \in 1..Len(path)})

\* Path.write_text / the destination side of shutil.move and shutil.copy2:
\* the file at path is created, or replaced when there is one.
WriteFile(fs, path, content) ==
  FS([q \in DOMAIN fs.files \cup {path} |->
        IF q = path THEN content ELSE fs.files[q]], fs.dirs)

\* The source side of shutil.move: the file at path is gone.
RemoveFile(fs, path) ==
  FS([q \in DOMAIN fs.files \ {path} |-> fs.files[q]], fs.dirs)

\* The content of a user's file; the ids tell the files apart.
Data(id) == [kind |-> "data", id |-> id]

\* The content of a sidecar written by the style service.
NfoText(contents) == [kind |-> "nfo", text |-> contents]

-----------------------------------------------------------------------------
(* StyleService *)

DEFAULT_STYLE == [Color |-> "$7f7f7f", IconIndex |-> 0, SortGroup |-> 0]

DEFAULT_UNSORTED_STYLE == [Color |-> "$7f7f7f", IconIndex |-> 0, SortGroup |-> 0]

\* StyleService.styles, each table in its dict order: the style definitions
\* the service is constructed with.
StyleBuckets ==
  <<[name |-> "808s", style |-> [Color |-> "$ff0000", IconIndex |-> 12, SortGroup |-> 1]]>>

StyleCategories ==
  <<[name |-> "Samples", style |-> [Color |-> "$123456", IconIndex |-> 10, SortGroup |-> 0]]>>

NoStyle == [Color |-> "none"]

\* A lookup that takes the first key that matches case-insensitively, an
\* exact key or not.
LookupInNoCase(table, name) ==
  LET nocase == {i \in 1..Len(table) :
                   Lower(Chars[table[i].name]) = Lower(Chars[name])}
      First(S) == CHOOSE i \in S : \A j \in S : i <= j
  IN  IF nocase # {} THEN table[First(nocase)].style
      ELSE NoStyle

\* One style table looked up by name: the exact key first, then the first key
\* that matches case-insensitively; NoStyle when there is none.
LookupIn(table, name) ==
  LET exact == {i \in 1..Len(table) : table[i].name = name}
      nocase == {i \in 1..Len(table) :
                   Lower(Chars[table[i].name]) = Lower(Chars[name])}
      First(S) == CHOOSE i \in S : \A j \in S : i <= j
  IN  IF exact # {} THEN table[First(exact)].style
      ELSE IF nocase # {} THEN table[First(nocase)].style
      ELSE NoStyle

\* _lookup_bucket and _lookup_category of a service svc
lookup_bucket(svc, bucket) == LookupIn(svc.styles.buckets, bucket)

lookup_category(svc, category) == LookupIn(svc.styles.categories, category)

\* A StyleService after __post_init__: its styles, _reported_missing, and
\* the warnings it has printed (the bucket and category of each).
StyleService(styles) ==
  [styles |-> styles, reported_missing |-> {}, printed |-> <<>>]

\* key = f"{bucket}:{category}"
MissingKey(bucket, category) == Chars[bucket] \o <<":">> \o Chars[category]

\* resolve_style on a service svc: the style returned and the service after
\* the call.
service_resolve_style(svc, bucket, category) ==
  LET by_bucket == lookup_bucket(svc, bucket)
      by_category == lookup_category(svc, category)
      key == MissingKey(bucket, category)
  IN  IF by_bucket # NoStyle THEN [style |-> by_bucket, svc |-> svc]
      ELSE IF by_category # NoStyle THEN [style |-> by_category, svc |-> svc]
      ELSE [style |-> DEFAULT_STYLE,
            svc |-> IF key \notin svc.reported_missing
                    THEN [svc EXCEPT !.reported_missing = @ \cup {key},
                                     !.printed = Append(@, <<bucket, category>>)]
                    ELSE svc]

\* resolve_style of the engine's style service: the style it returns.
resolve_style(bucket, category) ==
  service_resolve_style(
    StyleService([buckets |-> StyleBuckets, categories |-> StyleCategories]),
    bucket, category).style


pack_style_from_bucket(bucket_style) ==
  [Color |-> bucket_style.Color, IconIndex |-> bucket_style.IconIndex,
   SortGroup |-> bucket_style.SortGroup]

\* A text is a sequence of pieces: a white-space character, or a block of
\* text that neither begins nor ends with white space.
Space == [white |-> " "]

Newline == [white |-> "\n"]

Whitespace == {Space, Newline}

\* str.strip()
RECURSIVE strip(_)
strip(text) ==
  IF text = <<>> THEN <<>>
  ELSE IF Head(text) \in Whitespace THEN strip(Tail(text))
  ELSE IF text[Len(text)] \in Whitespace THEN strip(SubSeq(text, 1, Len(text) - 1))
  ELSE text

\* The text of a sidecar: one block, its Color, IconIndex and SortGroup lines
\* (the HeightOfs and Tip lines are the same in every sidecar); it begins
\* with "Color=" and ends with the Tip line.
nfo_contents(style) ==
  <<[Color |-> style.Color, IconIndex |-> style.IconIndex, SortGroup |-> style.SortGroup]>>

\* Path.read_text: a sidecar holds its text, any other file one block of its
\* own.
read_text(content) == IF content.kind = "nfo" THEN content.text ELSE <<content>>

NfoPath(target_dir, name) == Append(target_dir, name \o ".nfo")

\* The test of write_nfo: the file exists and holds the contents already.
nfo_unchanged(fs, target_dir, name, style) ==
  LET nfo_path == NfoPath(target_dir, name)
  IN  /\ nfo_path \in DOMAIN fs.files
      /\ strip(read_text(fs.files[nfo_path])) = strip(nfo_contents(style))

\* A write_nfo that writes whatever the file holds.
write_nfo_always(fs, target_dir, name, style) ==
  WriteFile(fs, NfoPath(target_dir, name), NfoText(nfo_contents(style)))

\* write_nfo: nothing is written when the file holds the same text already.
write_nfo(fs, target_dir, name, style) ==
  IF nfo_unchanged(fs, target_dir, name, style)
  THEN fs
  ELSE WriteFile(fs, NfoPath(target_dir, name), NfoText(nfo_contents(style)))

-----------------------------------------------------------------------------
(* ProducerOSEngine: helpers *)

ignore_rules == {"__MACOSX", ".DS_Store", "._"}

should_ignore(name) ==
  \E rule \in ignore_rules : name = rule \/ StartsWith(Chars[name], Chars[rule])

\* f"Loose_{timestamp}" and the run id, for datetime.now() = t
LooseName(t) == "Loose_" \o ToString(t)

RunId(t) == "run_" \o ToString(t)

\* A _wrap_loose_files that copies the loose files into the folder and leaves
\* them in the inbox root.
wrap_loose_files_copy(fs, t) ==
  LET loose_files == {p \in DOMAIN fs.files : Len(p) = 1 /\ ~should_ignore(p[1])}
  IN  IF loose_files = {} THEN fs
      ELSE FS([q \in DOMAIN fs.files \cup {<<LooseName(t)>> \o p : p \in loose_files} |->
                 IF q \in DOMAIN fs.files THEN fs.files[q] ELSE fs.files[Tail(q)]],
              fs.dirs \cup {<<LooseName(t)>>})

\* _wrap_loose_files at time t
wrap_loose_files(fs, t) ==
  LET loose_files == {p \in DOMAIN fs.files : Len(p) = 1 /\ ~should_ignore(p[1])}
      tmp_folder == <<LooseName(t)>>
      moved == {tmp_folder \o p : p \in loose_files}
  IN  IF loose_files = {} THEN fs
      ELSE FS([q \in (DOMAIN fs.files \ loose_files) \cup moved |->
                 IF q \in moved THEN fs.files[Tail(q)] ELSE fs.files[q]],
              fs.dirs \cup {tmp_folder})

\* _discover_packs: the names of the pack directories
discover_packs(fs) ==
  {d[1] : d \in {e \in fs.dirs : Len(e) = 1 /\ ~should_ignore(e[1])}}

\* The entries of pack_dir.rglob("*") the loop of run does not skip: the
\* regular files below the pack whose own name is not ignored.
pack_files(fs, pack) ==
  {p \in DOMAIN fs.files : Len(p) >= 2 /\ p[1] = pack /\ ~should_ignore(Last(p))}

\* The orders in which a directory listing (iterdir, rglob) can enumerate S.
Orders(S) ==
  {s \in [1..Cardinality(S) -> S] : \A x \in S : \E i \in DOMAIN s : s[i] = x}

\* An _ensure_hub_structure that writes the sidecar of the pack into the
\* pack folder, next to the files.
ensure_hub_structure_inside(fs, category, bucket, pack_name) ==
  LET category_dir == <<category>>
      pack_dir == <<category, bucket, pack_name>>
      made == Mkdirs(fs, pack_dir)
      bucket_style == resolve_style(bucket, category)
      w1 == write_nfo(made, <<>>, category, bucket_style)
      w2 == write_nfo(w1, category_dir, bucket, bucket_style)
  IN  write_nfo(w2, pack_dir, pack_name, pack_style_from_bucket(bucket_style))

ensure_hub_structure(fs, category, bucket, pack_name) ==
  LET category_dir == <<category>>
      bucket_dir == <<category, bucket>>
      pack_dir == <<category, bucket, pack_name>>
      made == Mkdirs(fs, pack_dir)
      category_style == resolve_style(bucket, category)
      w1 == write_nfo(made, <<>>, category, category_style)
      bucket_style == resolve_style(bucket, category)
      w2 == write_nfo(w1, category_dir, bucket, bucket_style)
      pack_style == pack_style_from_bucket(bucket_style)
  IN  write_nfo(w2, bucket_dir, pack_name, pack_style)

ensure_unsorted_structure(fs, pack_name) ==
  LET made == Mkdirs(fs, <<"UNSORTED", pack_name>>)
      w1 == write_nfo(made, <<>>, "UNSORTED", DEFAULT_UNSORTED_STYLE)
  IN  write_nfo(w1, <<"UNSORTED">>, pack_name, DEFAULT_UNSORTED_STYLE)

\* The number of the calls of write_nfo in _ensure_hub_structure that write.
hub_structure_writes(fs, category, bucket, pack_name) ==
  LET category_dir == <<category>>
      bucket_dir == <<category, bucket>>
      pack_dir == <<category, bucket, pack_name>>
      made == Mkdirs(fs, pack_dir)
      category_style == resolve_style(bucket, category)
      w1 == write_nfo(made, <<>>, category, category_style)
      bucket_style == resolve_style(bucket, category)
      w2 == write_nfo(w1, category_dir, bucket, bucket_style)
      pack_style == pack_style_from_bucket(bucket_style)
      n(unchanged) == IF unchanged THEN 0 ELSE 1
  IN  n(nfo_unchanged(made, <<>>, category, category_style))
      + n(nfo_unchanged(w1, category_dir, bucket, bucket_style))
      + n(nfo_unchanged(w2, bucket_dir, pack_name, pack_style))

\* The number of the calls of write_nfo in _ensure_unsorted_structure that
\* write.
unsorted_structure_writes(fs, pack_name) ==
  LET made == Mkdirs(fs, <<"UNSORTED", pack_name>>)
      w1 == write_nfo(made, <<>>, "UNSORTED", DEFAULT_UNSORTED_STYLE)
      n(unchanged) == IF unchanged THEN 0 ELSE 1
  IN  n(nfo_unchanged(made, <<>>, "UNSORTED", DEFAULT_UNSORTED_STYLE))
      + n(nfo_unchanged(w1, <<"UNSORTED">>, pack_name, DEFAULT_UNSORTED_STYLE))

\* A dest_path that drops the sub-folders of the pack: only file_path.name
DestPathFlat(classification, pack, rel_path) ==
  IF classification.bucket = None
  THEN <<"UNSORTED", pack, Last(rel_path)>>
  ELSE <<classification.category, classification.bucket, pack, Last(rel_path)>>

\* dest_path of run
DestPath(classification, pack, rel_path) ==
  IF classification.bucket = None
  THEN <<"UNSORTED", pack>> \o rel_path
  ELSE <<classification.category, classification.bucket, pack>> \o rel_path

\* _move_or_copy: the inbox and the hub after it
move_or_copy(inb, hubfs, src, dst, m) ==
  LET made == Mkdirs(hubfs, Parent(dst))
  IN  IF m = "move"
      THEN [inbox |-> RemoveFile(inb, src), hub |-> WriteFile(made, dst, inb.files[src])]
      ELSE IF m = "copy"
      THEN [inbox |-> inb, hub |-> WriteFile(made, dst, inb.files[src])]
      ELSE [inbox |-> inb, hub |-> made]

\* f"{confidence:.2f}", in hundredths: the nearest, an exact tie to the even one
Round2(c) ==
  LET q == (c.num * 100) \div c.den
      r == (c.num * 100) % c.den
  IN  IF 2 * r > c.den THEN q + 1
      ELSE IF 2 * r < c.den THEN q
      ELSE IF q % 2 = 0 THEN q ELSE q + 1

\* reason of run, before "; destination exists" is appended
ReasonOf(classification) ==
  IF classification.bucket = None
  THEN [kind |-> IF classification.candidates = <<>> THEN "no matches" ELSE "candidates",
        bucket |-> None, confidence |-> 0,
        candidates |-> classification.candidates, destination_exists |-> FALSE]
  ELSE [kind |-> "best match", bucket |-> classification.bucket,
        confidence |-> Round2(classification.confidence),
        candidates |-> <<>>, destination_exists |-> FALSE]

-----------------------------------------------------------------------------
(* ProducerOSEngine: state *)

\* The files an inbox can hold when the engine is constructed; a file's
\* content is Data(its index here).
InboxCandidates ==
  << <<"My808Pack", "808_boom.wav">>,
     <<"UnknownPack", "weirdo_sample.wav">>,
     <<"My808Pack", "kick.wav">>,
     <<"UnknownPack", "kick.wav">>,
     <<"kick.wav">>,
     <<"My808Pack", "sub", "kick.wav">>,
     <<"My808Pack", "__MACOSX", "kick.wav">>,
     <<"__MACOSX", "kick.wav">>,
     <<"My808Pack", "._kick.wav">>,
     <<"My808Pack", "kick.nfo">> >>

\* The file names of the model.
FileNames == {Last(InboxCandidates[i]) : i \in 1..Len(InboxCandidates)}

\* _classify_filename of every file name of the model.
Classification == [name \in FileNames |-> classify_filename(Chars[name])]

EmptyFiles == [q \in {} |-> Data(0)]

InitialInbox(S) ==
  LET paths == {InboxCandidates[i] : i \in S}
      id(p) == CHOOSE i \in S : InboxCandidates[i] = p
  IN  FS([p \in paths |-> Data(id(p))],
         UNION {{SubSeq(p, 1, n) : n \in 1..(Len(p) - 1)} : p \in paths})

Modes == {"analyze", "dry-run", "copy", "move", "repair-styles"}

NoReport == [run_id |-> "none"]

NoPack == [pack |-> "none"]

EmptyFS == FS(EmptyFiles, {})

EngineInit ==
  /\ \E S \in SUBSET (1..Len(InboxCandidates)) :
       /\ Cardinality(S) <= MaxFiles
       /\ inbox = InitialInbox(S)
  /\ hub = EmptyFS
  /\ clock = 0
  /\ history = <<>>
  /\ pre = [inbox |-> EmptyFS, hub |-> EmptyFS,
           roots |-> [inbox |-> TRUE, hub |-> TRUE]]

\* No hints file, no call made.
HintsIdle ==
  /\ hints_file = [kind |-> "missing"]
  /\ hints_io = [op |-> "none"]

\* No configuration file, no schema, no call made.
ConfigIdle ==
  /\ config_in = [file |-> [kind |-> "missing"], schema |-> [kind |-> "missing"],
                  jsonschema |-> FALSE]
  /\ config_out = [op |-> "none"]

\* The review page as constructed.
PageIdle ==
  page = [rows |-> <<>>, overrides |-> <<>>, saved_hints |-> {},
          preview_stale |-> FALSE, last |-> "init",
          report |-> <<>>, busy |-> FALSE, progress_visible |-> FALSE,
          run_enabled |-> TRUE]

\* No style service under test.
StyleIdle ==
  style_io = [op |-> "none"]

\* The engine constructed over an inbox and a hub that exist.
Init ==
  /\ EngineInit
  /\ roots = [inbox |-> TRUE, hub |-> TRUE]
  /\ cname = <<>>
  /\ cresult = NotClassified
  /\ HintsIdle
  /\ ConfigIdle
  /\ PageIdle
  /\ StyleIdle

\* The calls of run that ended in an exception so far.
Failures == Cardinality({i \in DOMAIN history :
                           history[i].kind = "run" /\ history[i].status = "raised"})

-----------------------------------------------------------------------------
(* ProducerOSEngine.run *)

\* An action name that is MOVE in every mode that transfers files.
ModeUpperMove(m) == IF m \in {"move", "copy"} THEN "MOVE" ELSE "NONE"

ModeUpper(m) == IF m = "move" THEN "MOVE" ELSE IF m = "copy" THEN "COPY" ELSE "NONE"

BucketOrUnsorted(bucket) == IF bucket = None THEN "UNSORTED" ELSE bucket

\* A run without the test dest_path.exists()
DestExistsNever(hubfs, dest_path) == FALSE

\* dest_path.exists()
DestExists(hubfs, dest_path) == Exists(hubfs, dest_path)

\* One iteration of the loop over the files of a pack, in four parts.
\* st is the state of the call: the inbox, the hub, report, pack_report, the
\* rows of the audit file, the number of calls of _move_or_copy so far, and
\* whether an exception has ended the call. The call of _move_or_copy numbered
\* failAt raises (PermissionError, OSError): the destination folders are made
\* by then, the file itself is not touched, and nothing in run catches the
\* exception.

\* An audit file that gets a row only for a file that was moved.
audit_writerow_moved(audit, m, row) ==
  IF m = "move" /\ row.action = "MOVE" THEN Append(audit, row) ELSE audit

\* if audit_writer: audit_writer.writerow(...): the writer exists in move mode
audit_writerow(audit, m, row) ==
  IF m = "move" THEN Append(audit, row) ELSE audit

\* Last part: the file operation, the entry of the report, the audit row.
file_record(st, m, pack, file_path, failAt, classification, ensured, dest_path, exists) ==
  LET attempts == m \in {"copy", "move"} /\ ~exists
      calls == IF attempts THEN st.calls + 1 ELSE st.calls
      action == IF attempts THEN ModeUpper(m) ELSE "NONE"
      reason == [ReasonOf(classification) EXCEPT !.destination_exists =
                   m \in {"copy", "move"} /\ exists]
      entry == [source |-> file_path, dest |-> dest_path,
                bucket |-> BucketOrUnsorted(classification.bucket),
                category |-> classification.category,
                confidence |-> classification.confidence,
                action |-> action, reason |-> reason,
                candidates |-> classification.candidates]
      row == [file |-> file_path, pack |-> pack,
              category |-> classification.category,
              bucket |-> BucketOrUnsorted(classification.bucket),
              confidence |-> Round2(classification.confidence),
              action |-> action, reason |-> reason]
  IN  IF attempts /\ calls = failAt
      THEN [st EXCEPT !.hub = Mkdirs(ensured, Parent(dest_path)),
                      !.calls = calls, !.raised = TRUE]
      ELSE [st EXCEPT
              !.inbox = IF attempts
                        THEN move_or_copy(st.inbox, ensured, file_path, dest_path, m).inbox
                        ELSE @,
              !.hub = IF attempts
                      THEN move_or_copy(st.inbox, ensured, file_path, dest_path, m).hub
                      ELSE ensured,
              !.calls = calls,
              !.pack_report.files = Append(@, entry),
              !.report.unsorted = IF classification.bucket = None THEN @ + 1 ELSE @,
              !.report.files_moved = IF action = "MOVE" THEN @ + 1 ELSE @,
              !.report.files_copied = IF action = "COPY" THEN @ + 1 ELSE @,
              !.report.files_processed = @ + 1,
              !.audit = audit_writerow(@, m, row)]

\* A third part that overwrites: the file operation happens whether or not
\* the destination exists.
file_check_overwrite(st, m, pack, file_path, failAt, classification, ensured, dest_path) ==
  file_record(st, m, pack, file_path, failAt, classification, ensured, dest_path, FALSE)

\* Third part: whether the destination exists.
file_check(st, m, pack, file_path, failAt, classification, ensured, dest_path) ==
  file_record(st, m, pack, file_path, failAt, classification, ensured, dest_path,
              DestExists(ensured, dest_path))

\* Second part: the folders and sidecars of the destination, and dest_path.
file_route(st, m, pack, file_path, failAt, classification) ==
  file_check([st EXCEPT !.nfo_writes = @ +
                IF classification.bucket = None
                THEN unsorted_structure_writes(st.hub, pack)
                ELSE hub_structure_writes(st.hub, classification.category,
                                          classification.bucket, pack)],
             m, pack, file_path, failAt, classification,
             IF classification.bucket = None
             THEN ensure_unsorted_structure(st.hub, pack)
             ELSE ensure_hub_structure(st.hub, classification.category,
                                       classification.bucket, pack),
             DestPath(classification, pack, Tail(file_path)))

\* A first part whose scores are not reset between the files of a pack: a
\* file is scored together with the name of the file before it.
file_step_stale(st, m, pack, file_path, failAt) ==
  file_route(st, m, pack, file_path, failAt,
             IF st.pack_report.files = <<>>
             THEN Classification[Last(file_path)]
             ELSE classify_filename(
                    Chars[Last(st.pack_report.files[Len(st.pack_report.files)].source)]
                    \o Chars[Last(file_path)]))

\* First part: the classification of the file name.
file_step(st, m, pack, file_path, failAt) ==
  file_route(st, m, pack, file_path, failAt, Classification[Last(file_path)])

\* for file_path in files, from the file numbered i on
RECURSIVE files_loop(_, _, _, _, _, _)
files_loop(st, m, pack, files, i, failAt) ==
  IF st.raised \/ i > Len(files) THEN st
  ELSE files_loop(file_step(st, m, pack, files[i], failAt), m, pack, files, i + 1, failAt)

\* list(pack_dir.rglob("*")) without the entries the loop skips, in the
\* order the file system enumerates them (listing: all files in that order)
ListPack(fs, pack, listing) ==
  SelectSeq(listing, LAMBDA f : f \in pack_files(fs, pack))

\* for pack_dir in packs, from the pack numbered j on
RECURSIVE packs_loop(_, _, _, _, _, _)
packs_loop(st, m, packs, j, listing, failAt) ==
  IF st.raised \/ j > Len(packs) THEN st
  ELSE
    LET pack == packs[j]
        files == ListPack(st.inbox, pack, listing)
        opened == [st EXCEPT !.pack_report = [pack |-> pack, files |-> <<>>]]
        after == files_loop(opened, m, pack, files, 1, failAt)
    IN  IF after.raised THEN after
        ELSE packs_loop([after EXCEPT !.report.packs = Append(@, after.pack_report),
                                      !.pack_report = NoPack],
                        m, packs, j + 1, listing, failAt)

\* run(mode = m): the log directory, the empty report, the loose files
\* wrapped, the packs discovered, the audit file opened (move mode), the loop
\* over the packs, and the report written. The file system enumerates the
\* packs in the order packs, the files in the order listing.
run_body(m, packs, listing, failAt) ==
  LET t == clock + 1
      wrapped == wrap_loose_files(inbox, t)
      start == [inbox |-> wrapped,
                hub |-> Mkdirs(hub, <<"logs", RunId(t)>>),
                report |-> [run_id |-> RunId(t), mode |-> m, files_processed |-> 0,
                            files_moved |-> 0, files_copied |-> 0, unsorted |-> 0,
                            packs |-> <<>>],
                pack_report |-> NoPack,
                audit |-> <<>>,
                nfo_writes |-> 0,
                calls |-> 0,
                raised |-> FALSE]
  IN  packs_loop(start, m, packs, 1, listing, failAt)

\* Whether listing enumerates the files pack by pack, in the order packs (one
\* listing for each way the file system can enumerate).
GroupedBy(listing, packs) ==
  \A i, j \in DOMAIN listing :
    i < j => \E a, b \in DOMAIN packs :
               a <= b /\ packs[a] = listing[i][1] /\ packs[b] = listing[j][1]

\* The files run can come to process: the eligible files of the packs.
Eligible(fs) == UNION {pack_files(fs, pack) : pack \in discover_packs(fs)}

\* The end of a call of run that went as st tells: an exception leaves no
\* report; the audit file holds the rows written before it.
RunEnds(m, st) ==
  /\ inbox' = st.inbox
  /\ hub' = st.hub
  /\ history' = Append(history,
       [kind |-> "run", run_id |-> RunId(clock + 1), mode |-> m,
        status |-> IF st.raised THEN "raised" ELSE "done",
        has_audit |-> (m = "move"),
        audit |-> st.audit,
        nfo_writes |-> st.nfo_writes,
        processed |-> st.report.files_processed,
        report |-> IF st.raised THEN NoReport ELSE st.report])
  /\ clock' = clock + 1
  /\ pre' = [inbox |-> inbox, hub |-> hub, roots |-> roots]
  /\ roots' = [roots EXCEPT !.hub = TRUE]
  /\ UNCHANGED <<classifyVars, serviceVars>>

\* A call of run when inbox_dir does not exist: log_dir.mkdir(parents=True)
\* makes the log directory (and hub_dir), then self.inbox_dir.iterdir() of
\* _wrap_loose_files raises FileNotFoundError, before the audit file is opened.
RunAborts(m) ==
  /\ hub' = Mkdirs(hub, <<"logs", RunId(clock + 1)>>)
  /\ history' = Append(history,
       [kind |-> "run", run_id |-> RunId(clock + 1), mode |-> m,
        status |-> "raised", has_audit |-> FALSE, audit |-> <<>>,
        nfo_writes |-> 0, processed |-> 0, report |-> NoReport])
  /\ clock' = clock + 1
  /\ pre' = [inbox |-> inbox, hub |-> hub, roots |-> roots]
  /\ roots' = [roots EXCEPT !.hub = TRUE]
  /\ UNCHANGED <<inbox, classifyVars, serviceVars>>

\* The outcome of file operation failAt raising (0: none raises): a call of
\* that number must have been made.
Outcome(failAt, st) == IF failAt > 0 /\ ~st.raised THEN {} ELSE {st}

RunFrom(m, wrapped) ==
  \E packs \in Orders(discover_packs(wrapped)),
     listing \in Orders(Eligible(wrapped)),
     failAt \in 0..(IF Failures < MaxFailures /\ m \in {"copy", "move"}
                    THEN Cardinality(Eligible(wrapped)) ELSE 0) :
    /\ GroupedBy(listing, packs)
    /\ \E st \in Outcome(failAt, run_body(m, packs, listing, failAt)) : RunEnds(m, st)

run(m) ==
  IF roots.inbox
  THEN RunFrom(m, wrap_loose_files(inbox, clock + 1))
  ELSE RunAborts(m)

-----------------------------------------------------------------------------
(* ProducerOSEngine.undo_last_run *)

QuarantineDir == <<"Quarantine", "UndoConflicts">>

\* shutil.move of a regular file from src of one tree to dst of another (or
\* of the same): a file at dst is replaced.
\* A move that leaves the file at src.
MoveOutKeep(from, src) == from

MoveOut(from, src) == RemoveFile(from, src)

MoveIn(to, dst, content) == WriteFile(to, dst, content)

\* current_location of a row
CurrentLocation(row) ==
  IF row.bucket # "UNSORTED"
  THEN <<row.category, row.bucket, row.pack, Last(row.file)>>
  ELSE <<"UNSORTED", row.pack, Last(row.file)>>

\* The loop's iteration without its test of the row's action.
undo_row_any_action(st, row) ==
  LET dest_in_inbox == <<Last(row.file)>>
      current_location == CurrentLocation(row)
      content == st.hub.files[current_location]
  IN  IF ~Exists(st.hub, current_location) THEN st
      ELSE IF Exists(st.inbox, dest_in_inbox)
      THEN [st EXCEPT
              !.hub = MoveIn(MoveOut(st.hub, current_location),
                             Append(QuarantineDir, Last(row.file)), content),
              !.conflicts = @ + 1]
      ELSE [st EXCEPT
              !.hub = MoveOut(st.hub, current_location),
              !.inbox = MoveIn(st.inbox, dest_in_inbox, content),
              !.restored = @ + 1]

\* One iteration of the loop over the rows of the audit file; st holds the
\* inbox, the hub and the two counters.
undo_row(st, row) ==
  LET dest_in_inbox == <<Last(row.file)>>
      current_location == CurrentLocation(row)
      content == st.hub.files[current_location]
  IN  IF row.action # "MOVE" THEN st
      ELSE IF ~Exists(st.hub, current_location) THEN st
      ELSE IF Exists(st.inbox, dest_in_inbox)
      THEN [st EXCEPT
              !.hub = MoveIn(MoveOut(st.hub, current_location),
                             Append(QuarantineDir, Last(row.file)), content),
              !.conflicts = @ + 1]
      ELSE [st EXCEPT
              !.hub = MoveOut(st.hub, current_location),
              !.inbox = MoveIn(st.inbox, dest_in_inbox, content),
              !.restored = @ + 1]

\* for row in reader, from the row numbered i on
RECURSIVE undo_rows(_, _, _)
undo_rows(rows, i, st) ==
  IF i > Len(rows) THEN st
  ELSE undo_rows(rows, i + 1, undo_row(st, rows[i]))

\* The runs that left an audit.csv under hub/logs.
AuditRuns == {i \in DOMAIN history : history[i].kind = "run" /\ history[i].has_audit}

\* audit_files[0]: the audit.csv modified last is that of the latest such run.
LatestAudit == CHOOSE i \in AuditRuns : \A j \in AuditRuns : j <= i

\* The end of a call of undo_last_run that went as st tells.
UndoEnds(st, audit_run) ==
  /\ inbox' = st.inbox
  /\ hub' = st.hub
  /\ history' = Append(history,
       [kind |-> "undo", error |-> "",
        restored |-> st.restored, conflicts |-> st.conflicts,
        audit_file |-> history[audit_run].run_id])

undo_last_run ==
  /\ clock' = clock + 1
  /\ pre' = [inbox |-> inbox, hub |-> hub, roots |-> roots]
  /\ IF ~roots.hub \/ ~Exists(hub, <<"logs">>)
     THEN /\ history' = Append(history, [kind |-> "undo", error |-> "No logs found"])
          /\ UNCHANGED <<inbox, hub>>
     ELSE IF AuditRuns = {}
     THEN /\ history' = Append(history, [kind |-> "undo", error |-> "No audit files found"])
          /\ UNCHANGED <<inbox, hub>>
     ELSE UndoEnds(undo_rows(history[LatestAudit].audit, 1,
                     [inbox |-> inbox, hub |-> Mkdirs(hub, QuarantineDir),
                      restored |-> 0, conflicts |-> 0]),
                   LatestAudit)
  /\ UNCHANGED <<roots, classifyVars, serviceVars>>

-----------------------------------------------------------------------------
(* ProducerOSEngine.repair_styles *)

\* The directories of fs directly below the directories of parents (the root:
\* {<<>>}) whose name is not ignored: the entries the three nested loops keep.
SubDirs(fs, parents) ==
  {d \in fs.dirs : Len(d) >= 1 /\ Parent(d) \in parents /\ ~should_ignore(Last(d))}

\* desired_nfos: a sidecar next to every category, bucket and pack folder.
desired_nfos(fs) ==
  LET categories == SubDirs(fs, {<<>>})
      buckets == SubDirs(fs, categories)
      packs == SubDirs(fs, buckets)
  IN  {NfoPath(Parent(d), Last(d)) : d \in categories \cup buckets \cup packs}

\* nfo_path.stem of a desired sidecar: the name of its folder.
FolderOf(fs, nfo_path) ==
  CHOOSE name \in {Last(d) : d \in fs.dirs} : NfoPath(Parent(nfo_path), name) = nfo_path

\* The style repair_styles gives the sidecar nfo_path of the folder folder_name.
\* category.upper() == "UNSORTED" is tested on the lower-case names.
repair_style(nfo_path, folder_name) ==
  LET parent_dir == Parent(nfo_path)
  IN  IF parent_dir = <<>>
      THEN IF Lower(Chars[folder_name]) = Lower(Chars["UNSORTED"])
           THEN DEFAULT_UNSORTED_STYLE
           ELSE resolve_style(folder_name, folder_name)
      ELSE IF Parent(parent_dir) = <<>>
      THEN resolve_style(folder_name, Last(parent_dir))
      ELSE pack_style_from_bucket(
             resolve_style(Last(parent_dir), Last(Parent(parent_dir))))

\* An iteration that rewrites and counts every sidecar it finds, whether or
\* not its content differs.
repair_nfo_recount(st, nfo_path, folder_name, style) ==
  [st EXCEPT !.hub = WriteFile(@, nfo_path, NfoText(nfo_contents(style))),
             !.updated = IF nfo_path \in DOMAIN st.hub.files THEN @ + 1 ELSE @,
             !.created = IF nfo_path \in DOMAIN st.hub.files THEN @ ELSE @ + 1]

\* One iteration of the loop over desired_nfos; st holds the hub and the
\* counters of actions.
repair_nfo(st, nfo_path, folder_name, style) ==
  IF nfo_path \in DOMAIN st.hub.files
  THEN IF strip(read_text(st.hub.files[nfo_path])) # nfo_contents(style)
       THEN [st EXCEPT !.hub = write_nfo(@, Parent(nfo_path), folder_name, style),
                       !.updated = @ + 1]
       ELSE st
  ELSE [st EXCEPT !.hub = write_nfo(@, Parent(nfo_path), folder_name, style),
                  !.created = @ + 1]

\* for nfo_path in desired_nfos, over the sidecars still to do
RECURSIVE repair_desired(_, _)
repair_desired(st, todo) ==
  IF todo = {} THEN st
  ELSE LET nfo_path == CHOOSE p \in todo : TRUE
           folder_name == FolderOf(st.hub, nfo_path)
       IN  repair_desired(repair_nfo(st, nfo_path, folder_name,
                                     repair_style(nfo_path, folder_name)),
                          todo \ {nfo_path})

\* self.hub_dir.rglob("*.nfo"): the files of the hub named *.nfo. A file
\* written by write_nfo is named f"{name}.nfo".
RglobNfo(fs) ==
  {p \in DOMAIN fs.files :
     fs.files[p].kind = "nfo" \/ EndsWith(Chars[Last(p)], Chars[".nfo"])}

\* The loop that removes orphans: nfo.unlink() of every *.nfo not desired.
remove_orphans(st, desired, orphans) ==
  [st EXCEPT !.hub = FS([q \in DOMAIN st.hub.files \ orphans |-> st.hub.files[q]],
                        st.hub.dirs),
             !.removed = Cardinality(orphans)]

repair_body(fs, desired) ==
  LET written == repair_desired([hub |-> fs, created |-> 0, updated |-> 0,
                                 removed |-> 0, relocated |-> 0], desired)
  IN  remove_orphans(written, desired, RglobNfo(written.hub) \ desired)

\* The end of a call of repair_styles that went as st tells.
RepairEnds(st) ==
  /\ hub' = st.hub
  /\ history' = Append(history,
       [kind |-> "repair", status |-> "done", created |-> st.created,
        updated |-> st.updated, removed |-> st.removed, relocated |-> st.relocated])

\* repair_styles; self.hub_dir.iterdir() raises when hub_dir does not exist.
repair_styles ==
  /\ clock' = clock + 1
  /\ pre' = [inbox |-> inbox, hub |-> hub, roots |-> roots]
  /\ IF roots.hub
     THEN RepairEnds(repair_body(hub, desired_nfos(hub)))
     ELSE /\ history' = Append(history, [kind |-> "repair", status |-> "raised"])
          /\ UNCHANGED hub
  /\ UNCHANGED <<inbox, roots, classifyVars, serviceVars>>

-----------------------------------------------------------------------------
(* ConfigService: bucket hints *)

\* A JSON document, as json.dump writes it and json.load reads it.
JNum(n) == [t |-> "number", n |-> n]

JStr(s) == [t |-> "string", s |-> s]

JArr(items) == [t |-> "array", items |-> items]

JObj(members) == [t |-> "object", members |-> members]

\* A file: missing, or a text that is a JSON document or is not valid JSON.
MissingFile == [kind |-> "missing"]

TextFile(json) == [kind |-> "text", json |-> json]

InvalidJson == [t |-> "invalid"]

\* json.dump of a dict bucket -> list of tokens
DumpKeywords(keywords) ==
  JObj([b \in DOMAIN keywords |->
          JArr([i \in DOMAIN keywords[b] |-> JStr(keywords[b][i])])])

\* json.dump of a hints dict
DumpHints(hints) ==
  JObj([k \in {"version", "folder_keywords", "filename_keywords"} |->
          IF k = "version" THEN JNum(hints.version)
          ELSE IF k = "folder_keywords" THEN DumpKeywords(hints.folder_keywords)
          ELSE DumpKeywords(hints.filename_keywords)])

\* A _save_json that opens the file to append: the old text stays in front of
\* the new one.
save_json_append(file, data) ==
  IF file.kind = "missing" THEN TextFile(DumpHints(data)) ELSE TextFile(InvalidJson)

\* _save_json: the file is created or truncated, and data dumped into it.
save_json(file, data) == TextFile(DumpHints(data))

\* _load_json: None for a missing file; json.load raises on invalid JSON.
load_json(file) ==
  IF file.kind = "missing" THEN [t |-> "None"]
  ELSE IF file.json.t = "invalid" THEN [t |-> "raise"]
  ELSE file.json

\* The default shape of the hints.
DefaultHints == [version |-> 1, folder_keywords |-> <<>>, filename_keywords |-> <<>>]

Returned(value) == [raised |-> FALSE, value |-> value]

Raised == [raised |-> TRUE]

\* The keyword table under key of a payload: its buckets with their lists of
\* tokens; empty when the key is missing or is not an object of lists.
LoadKeywords(members, key) ==
  IF key \notin DOMAIN members THEN <<>>
  ELSE IF members[key].t # "object" THEN <<>>
  ELSE [b \in {c \in DOMAIN members[key].members : members[key].members[c].t = "array"} |->
          [i \in DOMAIN members[key].members[b].items |->
             members[key].members[b].items[i].s]]

\* A load_bucket_hints that takes the payload for an object without a test.
load_bucket_hints_unchecked(file) ==
  IF load_json(file).t \in {"raise", "None", "array", "number", "string"} THEN Raised
  ELSE Returned([version |-> load_json(file).members["version"].n,
                 folder_keywords |-> LoadKeywords(load_json(file).members, "folder_keywords"),
                 filename_keywords |-> LoadKeywords(load_json(file).members, "filename_keywords")])

\* load_bucket_hints: the default shape when the file is missing, is not
\* valid JSON or is not a JSON object; else the payload in the fixed shape.
load_bucket_hints(file) ==
  IF load_json(file).t # "object" THEN Returned(DefaultHints)
  ELSE Returned(
         [version |-> IF "version" \in DOMAIN load_json(file).members
                         /\ load_json(file).members["version"].t = "number"
                      THEN load_json(file).members["version"].n
                      ELSE 1,
          folder_keywords |-> LoadKeywords(load_json(file).members, "folder_keywords"),
          filename_keywords |-> LoadKeywords(load_json(file).members, "filename_keywords")])

\* save_bucket_hints: the hints written as one JSON object.
save_bucket_hints(file, hints) == save_json(file, hints)

\* The hints values of the model.
HintBuckets == {"808s", "FX"}

HintTokens == {"slides", "riser"}

HintVersions == {1, 2}

TokenLists == UNION {[1..n -> HintTokens] : n \in 0..MaxHintTokens}

KeywordTables == UNION {[B -> TokenLists] : B \in SUBSET HintBuckets}

HintsValues ==
  [version : HintVersions, folder_keywords : KeywordTables,
   filename_keywords : KeywordTables]

\* The hints files found at start: none, invalid JSON, JSON that is not an
\* object, an object without the keys, and a file saved earlier.
InitialHintsFiles ==
  { MissingFile,
    TextFile(InvalidJson),
    TextFile(JArr(<<JStr("not"), JStr("an"), JStr("object")>>)),
    TextFile(JNum(1)),
    TextFile(JObj(<<>>)),
    TextFile(DumpHints([version |-> 2,
                        folder_keywords |-> [b \in {"808s"} |-> <<"slides">>],
                        filename_keywords |-> <<>>])) }

\* cfg.save_bucket_hints(hints), the first call made
SaveHints ==
  /\ hints_io.op = "none"
  /\ \E hints \in HintsValues :
       /\ hints_file' = save_bucket_hints(hints_file, hints)
       /\ hints_io' = [op |-> "save", saved |-> hints]

\* cfg.load_bucket_hints()
LoadHints ==
  /\ hints_io.op # "load"
  /\ hints_io' = [op |-> "load", after_save |-> (hints_io.op = "save"),
                  before |-> hints_io, result |-> load_bucket_hints(hints_file)]
  /\ UNCHANGED hints_file

-----------------------------------------------------------------------------
(* ConfigService: load_config, load_styles *)

\* The value json.load returns is written as the JSON document it came from;
\* None and {} are
PyNone == [t |-> "None"]

EmptyDict == JObj(<<>>)

\* bool(value) of a value returned by _load_json
Truthy(value) ==
  IF value.t = "None" THEN FALSE
  ELSE IF value.t = "object" THEN DOMAIN value.members # {}
  ELSE IF value.t = "array" THEN value.items # <<>>
  ELSE IF value.t = "number" THEN value.n # 0
  ELSE TRUE

\* jsonschema.validate for the schemas of the model: "type" and, for an
\* object, the "type" of each of its "properties" that the instance has.
TypeOk(instance, schema) ==
  "type" \in DOMAIN schema.members => instance.t = schema.members["type"].s

SchemaValid(instance, schema) ==
  /\ TypeOk(instance, schema)
  /\ (instance.t = "object" /\ "properties" \in DOMAIN schema.members) =>
       \A k \in DOMAIN instance.members \cap DOMAIN schema.members["properties"].members :
         TypeOk(instance.members[k], schema.members["properties"].members[k])

\* _validate_json: "ok", or the exception that leaves it. json.load of a
\* schema file that is not valid JSON raises JSONDecodeError, a ValueError.
validate_json(data, schema_file, jsonschema) ==
  IF ~jsonschema THEN "ok"
  ELSE IF load_json(schema_file).t = "raise" THEN "ValueError"
  ELSE IF ~Truthy(load_json(schema_file)) THEN "ok"
  ELSE IF SchemaValid(data, load_json(schema_file)) THEN "ok"
  ELSE "ValueError"

\* The part of load_config and load_styles after the file is read.
validated(data, in) ==
  IF in.schema.kind = "missing" THEN Returned(data)
  ELSE IF validate_json(data, in.schema, in.jsonschema) = "ValueError"
  THEN Returned(EmptyDict)
  ELSE Returned(data)

\* load_config: the exception of _load_json is not caught.
load_config(in) ==
  IF load_json(in.file).t = "raise" THEN Raised
  ELSE IF load_json(in.file).t = "None" THEN validated(EmptyDict, in)
  ELSE validated(load_json(in.file), in)

\* load_styles: data = _load_json(styles_path) or {}
load_styles(in) ==
  IF load_json(in.file).t = "raise" THEN Raised
  ELSE IF ~Truthy(load_json(in.file)) THEN validated(EmptyDict, in)
  ELSE validated(load_json(in.file), in)

\* The configuration and styles files of the model.
ConfigFiles ==
  { MissingFile,
    TextFile(InvalidJson),
    TextFile(JArr(<<>>)),
    TextFile(JArr(<<JStr("not"), JStr("an"), JStr("object")>>)),
    TextFile(EmptyDict),
    TextFile(JObj([k \in {"inbox"} |-> JStr("C:/Samples/Inbox")])),
    TextFile(JObj([k \in {"inbox"} |-> JNum(1)])) }

\* The schema files of the model.
SchemaFiles ==
  { MissingFile,
    TextFile(InvalidJson),
    TextFile(EmptyDict),
    TextFile(JObj([k \in {"type", "properties"} |->
                     IF k = "type" THEN JStr("object")
                     ELSE JObj([q \in {"inbox"} |->
                                 JObj([r \in {"type"} |-> JStr("string")])])])) }

ConfigInputs == [file : ConfigFiles, schema : SchemaFiles, jsonschema : BOOLEAN]

\* cfg.load_config()
LoadConfig ==
  /\ config_out.op = "none"
  /\ config_out' = [op |-> "load_config", result |-> load_config(config_in)]
  /\ UNCHANGED config_in

\* cfg.load_styles()
LoadStyles ==
  /\ config_out.op = "none"
  /\ config_out' = [op |-> "load_styles", result |-> load_styles(config_in)]
  /\ UNCHANGED config_in

-----------------------------------------------------------------------------
(* RunPage: manual overrides and the stale preview *)

PageSources == {"Pack/kick.wav", "Pack/boom.wav"}

PageBuckets == {"Kicks", "808s", "UNSORTED"}

\* The reports shown: the chosen bucket of each file of the report.
PageReports == UNION {[S -> PageBuckets] : S \in SUBSET PageSources}

\* The file entry of a report for a file classified as bucket: its confidence
\* and its candidates.
PageFile(bucket) ==
  IF bucket = "UNSORTED"
  THEN [bucket |-> bucket, confidence |-> 0, top_candidates |-> <<>>]
  ELSE [bucket |-> bucket, confidence |-> 100,
        top_candidates |-> <<[bucket |-> bucket, score |-> 1]>>]

\* _flatten_rows: one row per file, with no override.
flatten_rows(report) ==
  [source \in DOMAIN report |->
     [chosen_bucket |-> PageFile(report[source]).bucket,
      original_bucket |-> PageFile(report[source]).bucket,
      override_bucket |-> "",
      effective_bucket |-> PageFile(report[source]).bucket,
      confidence_ratio |-> PageFile(report[source]).confidence,
      top_3_candidates |-> PageFile(report[source]).top_candidates]]

\* An _update_preview_stale_state that sets the Run button whether or not
\* the progress bar is visible.
update_preview_stale_state_always(pg) ==
  [pg EXCEPT !.preview_stale = (DOMAIN pg.overrides # {} \/ pg.saved_hints # {}),
             !.run_enabled = ~(DOMAIN pg.overrides # {} \/ pg.saved_hints # {})]

\* _update_preview_stale_state: the Run button follows the stale flag unless
\* the progress bar is visible.
update_preview_stale_state(pg) ==
  [pg EXCEPT !.preview_stale = (DOMAIN pg.overrides # {} \/ pg.saved_hints # {}),
             !.run_enabled = IF pg.progress_visible THEN @
                             ELSE ~(DOMAIN pg.overrides # {} \/ pg.saved_hints # {})]

\* set_busy(busy)
set_busy(pg, busy) ==
  IF busy
  THEN [pg EXCEPT !.busy = TRUE, !.run_enabled = FALSE, !.progress_visible = TRUE,
                  !.last = "set_busy"]
  ELSE update_preview_stale_state(
         [pg EXCEPT !.busy = FALSE, !.run_enabled = TRUE, !.progress_visible = FALSE,
                    !.last = "set_busy"])

\* set_results: the rows are rebuilt from the report; _manual_overrides and
\* _saved_hints are left as they are.
set_results(pg, report) ==
  update_preview_stale_state(
    [pg EXCEPT !.report = report, !.rows = flatten_rows(report),
               !.last = "set_results"])

\* clear_results
clear_results(pg) ==
  [pg EXCEPT !.report = <<>>, !.rows = <<>>, !.overrides = <<>>,
             !.saved_hints = {}, !.preview_stale = FALSE,
             !.last = "clear_results"]

\* The rows of _apply_override_to_rows that the loop changes.
OverrideChanges(pg, selected, bucket) ==
  {source \in selected : pg.rows[source].effective_bucket # bucket}

\* _apply_override_to_rows(rows, bucket) for the rows of the sources selected
apply_override_to_rows(pg, selected, bucket) ==
  IF bucket = "" \/ selected = {} \/ OverrideChanges(pg, selected, bucket) = {}
  THEN [pg EXCEPT !.last = "apply_override_unchanged"]
  ELSE
    update_preview_stale_state(
      [pg EXCEPT
         !.rows = [source \in DOMAIN pg.rows |->
                     IF source \in OverrideChanges(pg, selected, bucket)
                     THEN [pg.rows[source] EXCEPT
                             !.override_bucket =
                                IF bucket = pg.rows[source].original_bucket
                                THEN "" ELSE bucket,
                             !.effective_bucket = bucket]
                     ELSE pg.rows[source]],
         !.overrides =
            [source \in
               (DOMAIN pg.overrides \cup
                  {c \in OverrideChanges(pg, selected, bucket) :
                     bucket # pg.rows[c].original_bucket})
               \ {c \in OverrideChanges(pg, selected, bucket) :
                     bucket = pg.rows[c].original_bucket} |->
               IF source \in OverrideChanges(pg, selected, bucket)
               THEN [original_bucket |-> pg.rows[source].original_bucket,
                     override_bucket |-> bucket]
               ELSE pg.overrides[source]],
         !.preview_stale = TRUE,
         !.last = "apply_override"])

\* record_saved_hint: a hint saved before is not recorded again.
record_saved_hint(pg, hint) ==
  IF hint \in pg.saved_hints THEN [pg EXCEPT !.last = "record_saved_hint"]
  ELSE update_preview_stale_state(
         [pg EXCEPT !.saved_hints = @ \cup {hint}, !.preview_stale = TRUE,
                    !.last = "record_saved_hint"])

SetResults == \E report \in PageReports : page' = set_results(page, report)

ClearResults == page' = clear_results(page)

SetBusy == \E busy \in BOOLEAN : page' = set_busy(page, busy)

ApplyOverride ==
  \E selected \in SUBSET DOMAIN page.rows : \E bucket \in PageBuckets \cup {""} :
    page' = apply_override_to_rows(page, selected, bucket)

RecordSavedHint ==
  \E source \in DOMAIN page.rows :
    page' = record_saved_hint(page, [source |-> source, kind |-> "filename",
                                     bucket |-> "Kicks", token |-> "kick"])

-----------------------------------------------------------------------------
(* Specifications *)

\* At most MaxOps operations are explored.
OpsLeft == Len(history) < MaxOps

Next ==
  \/ OpsLeft /\ \E m \in Modes : run(m)
  \/ OpsLeft /\ undo_last_run
  \/ OpsLeft /\ repair_styles

Spec == Init /\ [][Next]_vars

\* The engine constructed over an inbox root and a hub root that may not
\* exist; a root that does not exist holds nothing.
InitRoots ==
  /\ EngineInit
  /\ roots \in [inbox : BOOLEAN, hub : BOOLEAN]
  /\ roots.inbox \/ inbox = EmptyFS
  /\ cname = <<>>
  /\ cresult = NotClassified
  /\ HintsIdle
  /\ ConfigIdle
  /\ PageIdle
  /\ StyleIdle

SpecRoots == InitRoots /\ [][Next]_vars

\* The style service under test: the tables it can be constructed with hold
\* up to MaxStyleEntries names that differ in case only, each with a style
\* of its own; the folder it writes into holds one sidecar or none.
StyleOfName ==
     "kicks" :> [Color |-> "$000001", IconIndex |-> 1, SortGroup |-> 0]
  @@ "KICKS" :> [Color |-> "$000002", IconIndex |-> 2, SortGroup |-> 0]
  @@ "Kicks" :> [Color |-> "$000003", IconIndex |-> 3, SortGroup |-> 1]
  @@ "samples" :> [Color |-> "$000004", IconIndex |-> 4, SortGroup |-> 0]
  @@ "SAMPLES" :> [Color |-> "$000005", IconIndex |-> 5, SortGroup |-> 0]
  @@ "Samples" :> [Color |-> "$000006", IconIndex |-> 6, SortGroup |-> 2]

StyleTablesOf(names) ==
  {[i \in 1..n |-> [name |-> f[i], style |-> StyleOfName[f[i]]]] :
     <<n, f>> \in {x \in UNION {{n} \X [1..n -> names] : n \in 0..MaxStyleEntries} :
                    \A i, j \in 1..x[1] : x[2][i] = x[2][j] => i = j}}

StylesUnderTest ==
  [buckets : StyleTablesOf({"kicks", "KICKS", "Kicks"}),
   categories : StyleTablesOf({"samples", "SAMPLES", "Samples"})]

WrittenStyles == {StyleOfName["Kicks"], DEFAULT_STYLE}

\* The sidecar Kicks.nfo of the folder before the first call: none, the
\* contents of a style, those contents within white space, other texts, or
\* a file of another kind.
InitialSidecars ==
  { <<>>,
    <<NfoText(nfo_contents(StyleOfName["Kicks"]))>>,
    <<NfoText(<<Space>> \o nfo_contents(StyleOfName["Kicks"]) \o <<Newline>>)>>,
    <<NfoText(<<Newline, Newline>> \o nfo_contents(DEFAULT_STYLE))>>,
    <<NfoText(nfo_contents(StyleOfName["Kicks"]) \o <<Newline>>
              \o nfo_contents(StyleOfName["Kicks"]))>>,
    <<NfoText(<<Space>>)>>,
    <<Data(1)>> }

FolderWith(sidecar) ==
  IF sidecar = <<>> THEN EmptyFS
  ELSE WriteFile(EmptyFS, NfoPath(<<>>, "Kicks"), sidecar[1])

NoCall == [name |-> "none"]

StyleCallsLeft == style_io.calls < MaxStyleCalls

\* style_service.resolve_style(bucket, category)
ResolveStyle ==
  \E bucket \in {"Kicks", "Bass"}, category \in {"Samples", "Loops"} :
    LET r == service_resolve_style(style_io.svc, bucket, category)
    IN  style_io' = [style_io EXCEPT
                       !.op = "resolve_style",
                       !.svc = r.svc,
                       !.calls = @ + 1,
                       !.pre_svc = style_io.svc,
                       !.pre_dir = style_io.dir,
                       !.prev = style_io.call,
                       !.call = [name |-> "resolve_style", bucket |-> bucket,
                                 category |-> category, style |-> r.style]]

\* style_service.write_nfo(target_dir, "Kicks", style)
WriteNfo ==
  \E style \in WrittenStyles :
    style_io' = [style_io EXCEPT
                   !.op = "write_nfo",
                   !.dir = write_nfo(style_io.dir, <<>>, "Kicks", style),
                   !.calls = @ + 1,
                   !.pre_svc = style_io.svc,
                   !.pre_dir = style_io.dir,
                   !.prev = style_io.call,
                   !.call = [name |-> "write_nfo", target |-> "Kicks",
                             style |-> style,
                             written |-> ~nfo_unchanged(style_io.dir, <<>>, "Kicks", style)]]

InitStyles ==
  /\ \E styles \in StylesUnderTest, sidecar \in InitialSidecars :
       style_io = [op |-> "new", svc |-> StyleService(styles),
                   dir |-> FolderWith(sidecar), calls |-> 0,
                   pre_svc |-> StyleService(styles), pre_dir |-> FolderWith(sidecar),
                   prev |-> NoCall, call |-> NoCall]
  /\ HintsIdle
  /\ ConfigIdle
  /\ PageIdle
  /\ cname = <<>>
  /\ cresult = NotClassified
  /\ inbox = EmptyFS
  /\ hub = EmptyFS
  /\ clock = 0
  /\ history = <<>>
  /\ pre = [inbox |-> EmptyFS, hub |-> EmptyFS,
           roots |-> [inbox |-> TRUE, hub |-> TRUE]]
  /\ roots = [inbox |-> TRUE, hub |-> TRUE]

StylesNext ==
  \/ StyleCallsLeft /\ ResolveStyle
       /\ UNCHANGED <<engineVars, classifyVars, hintVars, configVars, pageVars>>
  \/ StyleCallsLeft /\ WriteNfo
       /\ UNCHANGED <<engineVars, classifyVars, hintVars, configVars, pageVars>>

SpecStyles == InitStyles /\ [][StylesNext]_vars

\* Runs followed by further runs, by undo_last_run and by repair_styles, over
\* a small inbox.
UndoModes == {"analyze", "copy", "move"}

InitUndo ==
  /\ \E S \in SUBSET (1..Len(InboxCandidates)) :
       /\ Cardinality(S) <= MaxUndoFiles
       /\ inbox = InitialInbox(S)
  /\ hub = EmptyFS
  /\ clock = 0
  /\ history = <<>>
  /\ pre = [inbox |-> EmptyFS, hub |-> EmptyFS,
           roots |-> [inbox |-> TRUE, hub |-> TRUE]]
  /\ roots = [inbox |-> TRUE, hub |-> TRUE]
  /\ cname = <<>>
  /\ cresult = NotClassified
  /\ HintsIdle
  /\ ConfigIdle
  /\ PageIdle
  /\ StyleIdle

UndoOpsLeft == Len(history) < MaxUndoOps

UndoNext ==
  \/ UndoOpsLeft /\ \E m \in UndoModes : run(m)
  \/ UndoOpsLeft /\ undo_last_run
  \/ UndoOpsLeft /\ repair_styles

SpecUndo == InitUndo /\ [][UndoNext]_vars

\* _classify_filename applied to every bounded filename.
ClassifyNext == Classify /\ UNCHANGED <<engineVars, serviceVars>>

InitClassify ==
  /\ ClassifyInit
  /\ inbox = EmptyFS
  /\ hub = EmptyFS
  /\ clock = 0
  /\ history = <<>>
  /\ pre = [inbox |-> EmptyFS, hub |-> EmptyFS,
           roots |-> [inbox |-> TRUE, hub |-> TRUE]]
  /\ roots = [inbox |-> TRUE, hub |-> TRUE]
  /\ HintsIdle
  /\ ConfigIdle
  /\ PageIdle
  /\ StyleIdle

SpecClassify == InitClassify /\ [][ClassifyNext]_vars

\* save_bucket_hints and load_bucket_hints over every bounded hints value and
\* every initial hints file.
InitHints ==
  /\ hints_file \in InitialHintsFiles
  /\ hints_io = [op |-> "none"]
  /\ cname = <<>>
  /\ cresult = NotClassified
  /\ inbox = EmptyFS
  /\ hub = EmptyFS
  /\ clock = 0
  /\ history = <<>>
  /\ pre = [inbox |-> EmptyFS, hub |-> EmptyFS,
            roots |-> [inbox |-> TRUE, hub |-> TRUE]]
  /\ roots = [inbox |-> TRUE, hub |-> TRUE]
  /\ ConfigIdle
  /\ PageIdle
  /\ StyleIdle

HintsNext ==
  (SaveHints \/ LoadHints)
  /\ UNCHANGED <<engineVars, classifyVars, configVars, pageVars, styleVars>>

SpecHints == InitHints /\ [][HintsNext]_vars

\* load_config and load_styles over every file, schema file and installation
\* of the model.
InitConfig ==
  /\ config_in \in ConfigInputs
  /\ config_out = [op |-> "none"]
  /\ HintsIdle
  /\ PageIdle
  /\ StyleIdle
  /\ cname = <<>>
  /\ cresult = NotClassified
  /\ inbox = EmptyFS
  /\ hub = EmptyFS
  /\ clock = 0
  /\ history = <<>>
  /\ pre = [inbox |-> EmptyFS, hub |-> EmptyFS,
            roots |-> [inbox |-> TRUE, hub |-> TRUE]]
  /\ roots = [inbox |-> TRUE, hub |-> TRUE]

ConfigNext ==
  (LoadConfig \/ LoadStyles)
  /\ UNCHANGED <<engineVars, classifyVars, hintVars, pageVars, styleVars>>

SpecConfig == InitConfig /\ [][ConfigNext]_vars

\* The review page under the calls of its window and its reviewer.
InitPage ==
  /\ PageIdle
  /\ StyleIdle
  /\ ConfigIdle
  /\ HintsIdle
  /\ cname = <<>>
  /\ cresult = NotClassified
  /\ inbox = EmptyFS
  /\ hub = EmptyFS
  /\ clock = 0
  /\ history = <<>>
  /\ pre = [inbox |-> EmptyFS, hub |-> EmptyFS,
            roots |-> [inbox |-> TRUE, hub |-> TRUE]]
  /\ roots = [inbox |-> TRUE, hub |-> TRUE]

PageNext ==
  (SetResults \/ ClearResults \/ ApplyOverride \/ RecordSavedHint \/ SetBusy)
  /\ UNCHANGED <<engineVars, classifyVars, hintVars, configVars, styleVars>>

SpecPage == InitPage /\ [][PageNext]_vars

-----------------------------------------------------------------------------
(* Properties *)

\* The record of the last call.
LastOp == history[Len(history)]

IsRun(rec) == rec.kind = "run"

IsDoneRun(rec) == rec.kind = "run" /\ rec.status = "done"

\* The file entries of a report, over all its packs.
EntriesOf(rep) ==
  UNION {{rep.packs[i].files[j] : j \in DOMAIN rep.packs[i].files} : i \in DOMAIN rep.packs}

\* The file entries of all reports written so far.
AllEntries ==
  UNION {EntriesOf(history[i].report) : i \in {k \in DOMAIN history : IsDoneRun(history[k])}}

\* Where the file at path p of the inbox was when the last call began: a
\* loose file wrapped by the call was in the inbox root.
PathBefore(p) ==
  IF p \in DOMAIN pre.inbox.files THEN p ELSE Tail(p)

\* The contents of the user's files held anywhere in the inbox or the hub.
DataIn(inb, hubfs) ==
  {inb.files[p] : p \in DOMAIN inb.files} \cup
  {hubfs.files[p] : p \in {q \in DOMAIN hubfs.files : hubfs.files[q].kind = "data"}}

\* The hub without its logs folder.
CategoryTree(hubfs) ==
  FS(hubfs.files, {d \in hubfs.dirs : d[1] # "logs"})

\* C1: a second run in copy mode directly after a run in copy mode (and a
\* second move run directly after a move run), both returning their report,
\* copies and moves nothing: files_copied = 0, files_moved = 0 and no entry
\* of the second report has action COPY or MOVE.
C1_SecondRunCopiesNothing ==
  \A i \in 1..(Len(history) - 1) :
    ( /\ IsDoneRun(history[i])
      /\ IsDoneRun(history[i + 1])
      /\ history[i].mode = history[i + 1].mode
      /\ history[i].mode \in {"copy", "move"} )
    => /\ history[i + 1].report.files_copied = 0
       /\ history[i + 1].report.files_moved = 0
       /\ \A e \in EntriesOf(history[i + 1].report) : e.action \notin {"COPY", "MOVE"}

\* C1 witness: a copy run that copied files, followed by a copy run that
\* processed files.
C1_Witness ==
  /\ Len(history) = 2
  /\ IsDoneRun(history[1]) /\ history[1].mode = "copy"
  /\ IsDoneRun(history[2]) /\ history[2].mode = "copy"
  /\ history[1].report.files_copied >= 2
  /\ history[2].report.files_processed >= 2

\* C2: in copy or move mode a file whose destination already exists in the
\* hub is skipped: the entry has action NONE and a reason with "destination
\* exists", the file at the destination keeps its content, and the source
\* file is still in the inbox with its content.
C2_ExistingDestinationSkipped ==
  ( /\ history # <<>>
    /\ IsDoneRun(LastOp)
    /\ LastOp.mode \in {"copy", "move"} )
  => \A e \in EntriesOf(LastOp.report) :
       e.dest \in DOMAIN pre.hub.files
       => /\ e.action = "NONE"
          /\ e.reason.destination_exists
          /\ hub.files[e.dest] = pre.hub.files[e.dest]
          /\ e.source \in DOMAIN inbox.files
          /\ inbox.files[e.source] = pre.inbox.files[PathBefore(e.source)]

\* C2 witness: a move run found the destination of a file in the hub, where a
\* copy run had put it, and left the file in the inbox.
C2_Witness ==
  /\ Len(history) = 2
  /\ IsDoneRun(history[1]) /\ history[1].mode = "copy"
  /\ IsDoneRun(history[2]) /\ history[2].mode = "move"
  /\ \E e \in EntriesOf(history[2].report) :
       /\ e.dest \in DOMAIN pre.hub.files
       /\ e.reason.destination_exists
       /\ e.source \in DOMAIN inbox.files

\* C3: after a move run followed by undo_last_run, every file the run
\* recorded with action MOVE has left its hub location and is in the inbox
\* root under its name or in hub/Quarantine/UndoConflicts.
C3_UndoRestoresEveryMovedFile ==
  ( /\ Len(history) >= 2
    /\ LastOp.kind = "undo"
    /\ IsDoneRun(history[Len(history) - 1])
    /\ history[Len(history) - 1].mode = "move" )
  => \A e \in EntriesOf(history[Len(history) - 1].report) :
       e.action = "MOVE"
       => /\ e.dest \notin DOMAIN hub.files
          /\ \/ /\ <<Last(e.source)>> \in DOMAIN inbox.files
                /\ inbox.files[<<Last(e.source)>>] = pre.hub.files[e.dest]
             \/ /\ Append(QuarantineDir, Last(e.source)) \in DOMAIN hub.files
                /\ hub.files[Append(QuarantineDir, Last(e.source))] = pre.hub.files[e.dest]

\* C4: undo_last_run never overwrites or deletes a file: every file of the
\* inbox and every file of the quarantine folder keeps its content, and every
\* user file that was in the inbox or the hub is still in one of them.
C4_UndoNeverOverwrites ==
  (history # <<>> /\ LastOp.kind = "undo")
  => /\ \A p \in DOMAIN pre.inbox.files :
          p \in DOMAIN inbox.files /\ inbox.files[p] = pre.inbox.files[p]
     /\ \A p \in DOMAIN pre.hub.files :
          IsPrefix(QuarantineDir, p)
          => p \in DOMAIN hub.files /\ hub.files[p] = pre.hub.files[p]
     /\ DataIn(pre.inbox, pre.hub) \subseteq DataIn(inbox, hub)

\* C5: a run in analyze or dry-run mode does no file I/O on the inbox or on
\* the category tree of the hub: no file is moved or copied, no loose file is
\* relocated, no folder and no sidecar is created or rewritten.
C5_AnalyzeDoesNoFileIO ==
  ( /\ history # <<>>
    /\ IsRun(LastOp)
    /\ LastOp.mode \in {"analyze", "dry-run"} )
  => /\ inbox = pre.inbox
     /\ CategoryTree(hub) = CategoryTree(pre.hub)

\* C6: a file operation that fails does not end the run: the run returns its
\* report, written to the log directory, with every eligible file processed.
C6_FailureDoesNotAbortRun ==
  (history # <<>> /\ IsRun(LastOp))
  => /\ LastOp.status = "done"
     /\ LastOp.report # NoReport
     /\ LastOp.report.files_processed =
          Cardinality(Eligible(wrap_loose_files(pre.inbox, clock)))

\* The run records of the history.
RunRecords == {history[i] : i \in {k \in DOMAIN history : IsRun(history[k])}}

\* The audit file of run record r has a row for entry e.
HasRowFor(r, e) ==
  \E k \in DOMAIN r.audit :
    /\ r.audit[k].file = e.source
    /\ r.audit[k].pack = e.source[1]
    /\ r.audit[k].category = e.category
    /\ r.audit[k].bucket = e.bucket
    /\ r.audit[k].confidence = Round2(e.confidence)
    /\ r.audit[k].action = e.action
    /\ r.audit[k].reason = e.reason

\* C11 as stated: every run, in every mode, writes an audit trail under
\* hub/logs/<run-id>/ with exactly one row per processed file.
C11_AuditInEveryMode ==
  \A r \in RunRecords :
    roots.inbox => (r.has_audit /\ Len(r.audit) = r.processed)

\* C11 amended: a run writes an audit trail exactly when its mode is move
\* (and the inbox root exists); the audit trail of a move run has exactly one
\* row per processed file, with the file, pack, category, bucket, confidence,
\* action and reason of the file's report entry; a run in another mode
\* writes no row.
C11_AuditOfMoveRuns ==
  \A r \in RunRecords :
    /\ r.has_audit <=> (r.mode = "move" /\ roots.inbox)
    /\ ~r.has_audit => r.audit = <<>>
    /\ r.has_audit
         => /\ Len(r.audit) = r.processed
            /\ \A j, k \in DOMAIN r.audit : r.audit[j].file = r.audit[k].file => j = k
            /\ r.status = "done" => \A e \in EntriesOf(r.report) : HasRowFor(r, e)

\* C11 witness: a move run that processed two files or more, one of them
\* skipped because its destination existed, and wrote a row for each.
C11_Witness ==
  /\ history # <<>>
  /\ IsDoneRun(LastOp)
  /\ LastOp.mode = "move"
  /\ Len(LastOp.audit) >= 2
  /\ \E k \in DOMAIN LastOp.audit : LastOp.audit[k].action = "NONE"
  /\ \E k \in DOMAIN LastOp.audit : LastOp.audit[k].action = "MOVE"

\* No bucket has a positive score for the name being classified.
NoBucketScored ==
  \A i \in DOMAIN BucketOrder : BucketScore(Lower(Flatten(cname)), BucketOrder[i]) = 0

\* C7: the confidence c of every classification satisfies 0 <= c <= 1, and
\* the bucket is null (category UNSORTED) exactly when no bucket scored or
\* c < 0.75; a confidence equal to the threshold keeps the bucket.
C7_ConfidenceInvariant ==
  cresult # NotClassified
  => /\ cresult.confidence.den > 0
     /\ 0 <= cresult.confidence.num
     /\ cresult.confidence.num <= cresult.confidence.den
     /\ (cresult.bucket = None)
          <=> (NoBucketScored \/ 4 * cresult.confidence.num < 3 * cresult.confidence.den)
     /\ (cresult.bucket = None) <=> (cresult.category = "UNSORTED")

\* C7 witness: a name classified with a confidence of exactly 3/4, which
\* keeps its bucket.
C7_Witness ==
  /\ cresult # NotClassified
  /\ 4 * cresult.confidence.num = 3 * cresult.confidence.den
  /\ cresult.bucket # None

\* C8: the destination of every processed file is
\* <category>/<bucket>/<pack>/<path relative to the pack> when a bucket was
\* chosen and UNSORTED/<pack>/<path relative to the pack> otherwise, and a
\* file copied or moved by the last run is there; 808_boom.wav of My808Pack
\* goes to Samples/808s/My808Pack/808_boom.wav with confidence >= 0.75 and
\* weirdo_sample.wav of UnknownPack to UNSORTED/UnknownPack/weirdo_sample.wav.
C8_DestinationOfEveryFile ==
  \A i \in DOMAIN history :
    IsDoneRun(history[i])
    => \A k \in DOMAIN history[i].report.packs :
         \A e \in {history[i].report.packs[k].files[j] :
                     j \in DOMAIN history[i].report.packs[k].files} :
           /\ e.source[1] = history[i].report.packs[k].pack
           /\ e.dest = (IF e.bucket = "UNSORTED"
                          THEN <<"UNSORTED", e.source[1]>>
                          ELSE <<e.category, e.bucket, e.source[1]>>) \o Tail(e.source)
           /\ (e.bucket = "UNSORTED") <=> (e.category = "UNSORTED")
           /\ (i = Len(history) /\ e.action \in {"COPY", "MOVE"})
                => /\ e.dest \in DOMAIN hub.files
                   /\ hub.files[e.dest] = pre.inbox.files[PathBefore(e.source)]
           /\ e.source = <<"My808Pack", "808_boom.wav">>
                => /\ e.dest = <<"Samples", "808s", "My808Pack", "808_boom.wav">>
                   /\ 4 * e.confidence.num >= 3 * e.confidence.den
           /\ e.source = <<"UnknownPack", "weirdo_sample.wav">>
                => e.dest = <<"UNSORTED", "UnknownPack", "weirdo_sample.wav">>

\* C8 witness: one run has put 808_boom.wav, weirdo_sample.wav and a file of
\* a sub-folder of a pack at their destinations.
C8_Witness ==
  /\ history # <<>>
  /\ IsDoneRun(LastOp)
  /\ \E e \in EntriesOf(LastOp.report) :
       e.source = <<"My808Pack", "808_boom.wav">> /\ e.action \in {"COPY", "MOVE"}
  /\ \E e \in EntriesOf(LastOp.report) :
       e.source = <<"UnknownPack", "weirdo_sample.wav">> /\ e.action \in {"COPY", "MOVE"}
  /\ \E e \in EntriesOf(LastOp.report) :
       Len(e.source) = 3 /\ e.action \in {"COPY", "MOVE"}

C10_IgnoredNeverProcessed ==
  \A e \in AllEntries :
    \A k \in DOMAIN e.source : ~should_ignore(e.source[k])

\* The folders of the hub, when the last call began, that are categories,
\* buckets or packs: at most three levels deep, no ignored name on the way.
StyledFolders ==
  {d \in pre.hub.dirs :
     Len(d) \in 1..3 /\ \A k \in DOMAIN d : ~should_ignore(d[k])}

\* The sidecar of a folder.
SidecarOf(d) == Append(Parent(d), Last(d) \o ".nfo")

\* The sidecars the hub should have, given its folders when the last call began.
DesiredSidecars == {SidecarOf(d) : d \in StyledFolders}

\* The .nfo files of the hub, when the last call began, that are not desired.
OrphansBefore == RglobNfo(pre.hub) \ DesiredSidecars

\* The text a sidecar should have.
DesiredText(d) == NfoText(nfo_contents(repair_style(SidecarOf(d), Last(d))))

C13_RepairKeepsUserFiles ==
  (history # <<>> /\ LastOp.kind = "repair")
  => \A p \in DOMAIN pre.hub.files :
       pre.hub.files[p].kind = "data"
       => p \in DOMAIN hub.files /\ hub.files[p] = pre.hub.files[p]

\* C14: run(mode = "repair-styles") classifies no file, has no file entry in
\* its report, moves and copies nothing, and leaves the hub with every
\* sidecar that repair_styles would have made.
C14_RepairModeBypassesClassification ==
  (history # <<>> /\ IsDoneRun(LastOp) /\ LastOp.mode = "repair-styles")
  => /\ LastOp.report.files_processed = 0
     /\ EntriesOf(LastOp.report) = {}
     /\ inbox = pre.inbox
     /\ DataIn(EmptyFS, hub) = DataIn(EmptyFS, pre.hub)
     /\ desired_nfos(pre.hub) \subseteq DOMAIN hub.files

\* C15: a run that finds the inbox root or the hub root missing aborts before
\* it processes a file, and a run that finds both roots is not aborted.
C15_OnlyMissingRootAborts ==
  (history # <<>> /\ IsRun(LastOp))
  => /\ (~pre.roots.inbox \/ ~pre.roots.hub)
          => /\ LastOp.status = "raised"
             /\ LastOp.processed = 0
             /\ inbox = pre.inbox
             /\ DOMAIN hub.files = DOMAIN pre.hub.files
     /\ (pre.roots.inbox /\ pre.roots.hub) => LastOp.status = "done"

\* C16: load_bucket_hints returns the default shape {version: 1,
\* folder_keywords: {}, filename_keywords: {}} and does not raise when the
\* hints file is missing, is not valid JSON or is not a JSON object.
C16_HintsFallBackToDefault ==
  ( /\ hints_io.op = "load"
    /\ \/ hints_file.kind = "missing"
       \/ hints_file.json.t \in {"invalid", "array", "number", "string"} )
  => /\ ~hints_io.result.raised
     /\ hints_io.result.value.version = 1
     /\ DOMAIN hints_io.result.value.folder_keywords = {}
     /\ DOMAIN hints_io.result.value.filename_keywords = {}

\* C16 witness: the hints file holding a JSON array was loaded.
C16_Witness ==
  /\ hints_io.op = "load"
  /\ hints_file.kind = "text"
  /\ hints_file.json.t = "array"

StemChars(c) ==
  LET dots == {i \in 1..Len(c) : c[i] = "."}
      last == CHOOSE i \in dots : \A j \in dots : j <= i
  IN  IF dots # {} /\ 1 < last /\ last < Len(c) THEN SubSeq(c, 1, last - 1) ELSE c

\* The files next to the routed file at dest that are named <stem>.nfo.
SiblingNfos(dest) ==
  {q \in DOMAIN hub.files :
     /\ q # dest
     /\ Parent(q) = Parent(dest)
     /\ Last(q) \in DOMAIN Chars
     /\ Chars[Last(q)] = StemChars(Chars[Last(dest)]) \o Chars[".nfo"]}

IsSidecar(fs, path) == path \in DOMAIN fs.files /\ fs.files[path].kind = "nfo"

\* The last call was a copy run that ended and routed a file to a bucket.
CopyRunRouted ==
  /\ history # <<>>
  /\ IsDoneRun(LastOp)
  /\ LastOp.mode = "copy"
  /\ \E e \in EntriesOf(LastOp.report) : e.bucket # "UNSORTED"

\* The sidecars of the category, the bucket and the pack of every file the
\* last run routed to a bucket exist.
SidecarsOfRouted ==
  \A e \in EntriesOf(LastOp.report) :
    e.bucket # "UNSORTED" =>
      /\ IsSidecar(hub, <<e.category \o ".nfo">>)
      /\ IsSidecar(hub, <<e.category, e.bucket \o ".nfo">>)
      /\ IsSidecar(hub, <<e.category, e.bucket, e.source[1] \o ".nfo">>)

\* C18 as stated: after a copy run that routed a file to a bucket the
\* sidecars of the category, the bucket and the pack exist, and no routed
\* file has a sibling <stem>.nfo in its directory.
C18_NoSiblingNfo ==
  CopyRunRouted =>
    /\ SidecarsOfRouted
    /\ \A e \in EntriesOf(LastOp.report) : SiblingNfos(e.dest) = {}

\* C18 amended: after a copy run that routed a file to a bucket the
\* sidecars of the category, the bucket and the pack exist, and a sibling
\* <stem>.nfo of a routed file is never a sidecar written by run: it is a
\* file of the pack that the run routed itself, or it was in the hub before.
C18_SidecarsAndNoPerFileSidecar ==
  CopyRunRouted =>
    /\ SidecarsOfRouted
    /\ \A e \in EntriesOf(LastOp.report) : \A q \in SiblingNfos(e.dest) :
         /\ hub.files[q].kind = "data"
         /\ \/ q \in DOMAIN pre.hub.files
            \/ \E r \in EntriesOf(LastOp.report) : r.dest = q

\* C18 witness: a copy run copied kick.wav and the kick.nfo of the same pack
\* into one bucket folder.
C18_Witness ==
  /\ CopyRunRouted
  /\ \E e \in EntriesOf(LastOp.report) :
       /\ e.bucket # "UNSORTED"
       /\ e.action = "COPY"
       /\ Last(e.dest) = "kick.wav"
       /\ SiblingNfos(e.dest) # {}

\* C19: two distinct source files never share a destination within one run,
\* so after a copy run every routed file is in the hub, and a file skipped
\* because its destination exists found it there from before the run, not
\* from another file of the same run.
C19_DistinctDestinations ==
  /\ \A r \in {rec \in RunRecords : IsDoneRun(rec)} :
       \A e1 \in EntriesOf(r.report) : \A e2 \in EntriesOf(r.report) :
         e1.source # e2.source => e1.dest # e2.dest
  /\ (history # <<>> /\ IsDoneRun(LastOp) /\ LastOp.mode = "copy") =>
       \A e \in EntriesOf(LastOp.report) :
         /\ e.dest \in DOMAIN hub.files
         /\ hub.files[e.dest].kind = "data"
         /\ e.reason.destination_exists => e.dest \in DOMAIN pre.hub.files
         /\ e.action = "COPY" => hub.files[e.dest] = pre.inbox.files[PathBefore(e.source)]

\* C19 witness: a copy run copied kick.wav of two packs and kick.wav of a
\* sub-folder of one of them.
C19_Witness ==
  /\ history # <<>>
  /\ IsDoneRun(LastOp)
  /\ LastOp.mode = "copy"
  /\ \E e1 \in EntriesOf(LastOp.report) : \E e2 \in EntriesOf(LastOp.report) :
       \E e3 \in EntriesOf(LastOp.report) :
         /\ e1.source = <<"My808Pack", "kick.wav">>
         /\ e2.source = <<"UnknownPack", "kick.wav">>
         /\ e3.source = <<"My808Pack", "sub", "kick.wav">>
         /\ e1.action = "COPY" /\ e2.action = "COPY" /\ e3.action = "COPY"

\* The packs of a report in its order, each with its files in their order.
DiscoveryOrder(rep) ==
  [i \in DOMAIN rep.packs |->
     [pack |-> rep.packs[i].pack,
      files |-> [j \in DOMAIN rep.packs[i].files |-> rep.packs[i].files[j].source]]]

\* C20: two runs over an unchanged inbox list the same sequence of packs
\* and the same sequence of files in each pack, whatever the order in which
\* the file system enumerates the directory entries.
C20_DiscoveryOrderDeterministic ==
  ( /\ Len(history) = 2
    /\ IsDoneRun(history[1])
    /\ IsDoneRun(history[2])
    /\ pre.inbox = inbox
    /\ EntriesOf(history[1].report) # {}
    /\ {e.source : e \in EntriesOf(history[1].report)}
         = {e.source : e \in EntriesOf(history[2].report)} )
  => DiscoveryOrder(history[1].report) = DiscoveryOrder(history[2].report)

\* The file read is not valid JSON, is not a JSON object, or fails the
\* validation against its schema.
MalformedConfig ==
  \/ (config_in.file.kind = "text" /\ config_in.file.json.t # "object")
  \/ /\ config_in.file.kind = "text"
     /\ config_in.schema.kind = "text"
     /\ config_in.jsonschema
     /\ config_in.schema.json.t = "object"
     /\ ~SchemaValid(config_in.file.json, config_in.schema.json)

\* C21: loading a malformed configuration or styles file is never fatal:
\* load_config and load_styles return the empty mapping and do not raise
\* when the file fails the schema validation, is not parseable JSON or holds
\* a payload that is not an object.
C21_MalformedConfigNeverFatal ==
  (config_out.op # "none" /\ MalformedConfig)
  => /\ ~config_out.result.raised
     /\ config_out.result.value = EmptyDict

\* C22: an override marks the preview stale, and the preview stays stale
\* until the classification run is repeated: once set_results has loaded
\* the results of a new run the preview is not stale and no override of the
\* previous report is pending.
C22_NewResultsClearStale ==
  /\ page.last = "apply_override" => page.preview_stale
  /\ page.last = "set_results" =>
       (~page.preview_stale /\ DOMAIN page.overrides = {})

\* The loose files of the inbox when the last call began.
LooseBefore ==
  {p \in DOMAIN pre.inbox.files : Len(p) = 1 /\ ~should_ignore(p[1])}

RuleIndex(bucket) == CHOOSE i \in DOMAIN BucketOrder : BucketOrder[i] = bucket

\* The scores of the lower-cased name s for the buckets of BUCKET_RULES, in
\* registration order, from place i on.
RECURSIVE ScoreSeq(_, _)
ScoreSeq(s, i) ==
  IF i > Len(BucketOrder) THEN <<>>
  ELSE <<BucketScore(s, BucketOrder[i])>> \o ScoreSeq(s, i + 1)

RECURSIVE SumSeq(_)
SumSeq(sc) == IF sc = <<>> THEN 0 ELSE Head(sc) + SumSeq(Tail(sc))

\* With the scores sc, the bucket at place i ranks before the bucket at
\* place j: a greater score, or the same score and registered earlier.
RanksBefore(sc, i, j) == sc[i] > sc[j] \/ (sc[i] = sc[j] /\ i < j)

\* The candidates cands and the confidence conf are those of the scores sc.
RankedBy(sc, cands, conf) ==
  /\ Len(cands) <= 3
  /\ Len(cands) = (IF Cardinality({i \in DOMAIN sc : sc[i] > 0}) < 3
                   THEN Cardinality({i \in DOMAIN sc : sc[i] > 0}) ELSE 3)
  /\ \A k \in DOMAIN cands :
       /\ sc[RuleIndex(cands[k].bucket)] > 0
       /\ cands[k].score = sc[RuleIndex(cands[k].bucket)]
       /\ \A l \in DOMAIN cands :
            k < l => RanksBefore(sc, RuleIndex(cands[k].bucket), RuleIndex(cands[l].bucket))
       /\ \A i \in {j \in DOMAIN sc : sc[j] > 0} :
            (\A l \in DOMAIN cands : cands[l].bucket # BucketOrder[i])
            => RanksBefore(sc, RuleIndex(cands[k].bucket), i)
  /\ IF \A i \in DOMAIN sc : sc[i] = 0
     THEN cands = <<>> /\ conf.num = 0
     ELSE conf.num * SumSeq(sc) = cands[1].score * conf.den

\* C24: the candidate list holds at most three (bucket, score) pairs, the
\* highest-scoring buckets of score > 0 in descending order of score, ties
\* broken by registration order; the confidence is the top score divided by
\* the sum of all nonzero scores, and 0 with an empty list when no bucket
\* scored.
C24_CandidatesRanked ==
  cresult # NotClassified =>
    RankedBy(ScoreSeq(Lower(Flatten(cname)), 1), cresult.candidates, cresult.confidence)

\* C24 witness: four buckets scored the same, and the three registered
\* first are the candidates.
C24_Witness ==
  /\ cresult # NotClassified
  /\ Cardinality({i \in DOMAIN BucketOrder :
                    BucketScore(Lower(Flatten(cname)), BucketOrder[i]) > 0}) = 4
  /\ Len(cresult.candidates) = 3
  /\ cresult.candidates[1].score = cresult.candidates[3].score
  /\ 4 * cresult.confidence.num = cresult.confidence.den

\* The number of occurrences of p in s, as str.count counts them: the most
\* occurrences that can be taken without two of them overlapping.
Disjoint(S, len) == \A i \in S : \A j \in S : i < j => i + len <= j

OccurrencesAmong(at, len) ==
  CHOOSE n \in 0..Cardinality(at) :
    /\ \E S \in SUBSET at : Cardinality(S) = n /\ Disjoint(S, len)
    /\ \A S \in SUBSET at : Disjoint(S, len) => Cardinality(S) <= n

Occurrences(s, p) ==
  OccurrencesAmong({i \in 1..(Len(s) - Len(p) + 1) : MatchAt(s, p, i)}, Len(p))

\* What the pattern numbered k of a bucket must contribute for the
\* lower-cased name s, and the sum from that pattern on.
RECURSIVE ExpectedFrom(_, _, _)
ExpectedFrom(s, bucket, k) ==
  IF k > Len(BUCKET_RULES[bucket]) THEN 0
  ELSE (IF BUCKET_RULES[bucket][k] = ".mid" /\ EndsWith(s, <<".", "m", "i", "d">>)
        THEN 3
        ELSE Occurrences(s, Chars[BUCKET_RULES[bucket][k]]))
       + ExpectedFrom(s, bucket, k + 1)

RECURSIVE ExpectedTotalFrom(_, _)
ExpectedTotalFrom(s, i) ==
  IF i > Len(BucketOrder) THEN 0
  ELSE ExpectedFrom(s, BucketOrder[i], 1) + ExpectedTotalFrom(s, i + 1)

\* The scores of the classification under test are those expected for the
\* lower-cased name s, whose expected scores sum up to total.
ScoresAsExpected(s, total) ==
  /\ \A k \in DOMAIN cresult.candidates :
       cresult.candidates[k].score = ExpectedFrom(s, cresult.candidates[k].bucket, 1)
  /\ (cresult.candidates = <<>>) <=> (total = 0)
  /\ cresult.candidates # <<>> =>
       cresult.confidence.num * total
         = cresult.candidates[1].score * cresult.confidence.den

\* C25: for a filename that ends in ".mid", in any case, the pattern ".mid"
\* contributes the fixed score 3 to the MIDI bucket however often ".mid"
\* occurs in the name; every other pattern of every bucket contributes the
\* number of its occurrences in the lower-cased filename.
C25_MidFixedScore ==
  cresult # NotClassified =>
    ScoresAsExpected(Lower(Flatten(cname)),
                     ExpectedTotalFrom(Lower(Flatten(cname)), 1))

\* C25 witness: a name with ".mid" twice, the second at its end, scored 3
\* for MIDI.
C25_Witness ==
  /\ cresult # NotClassified
  /\ Len(cname) = 3
  /\ cname[2] = ".mid"
  /\ cname[3] = ".mid"
  /\ \E k \in DOMAIN cresult.candidates :
       cresult.candidates[k].bucket = "MIDI" /\ cresult.candidates[k].score = 3

\* The call made last was an undo_last_run that read an audit file.
Undone == Len(history) > 0 /\ LastOp.kind = "undo" /\ LastOp.error = ""

\* The rows of the audit file that call read.
UndoneRows ==
  history[CHOOSE k \in DOMAIN history :
            history[k].kind = "run" /\ history[k].run_id = LastOp.audit_file].audit

\* The MOVE rows whose hub-side file existed when the loop came to them: the
\* first MOVE row of each hub-side location that held a file before the call.
RowsFound(rows) ==
  {k \in DOMAIN rows :
     /\ rows[k].action = "MOVE"
     /\ CurrentLocation(rows[k]) \in DOMAIN pre.hub.files
     /\ \A j \in 1..(k - 1) :
          rows[j].action = "MOVE" => CurrentLocation(rows[j]) # CurrentLocation(rows[k])}

UnderQuarantine(path) ==
  Len(path) > Len(QuarantineDir) /\ SubSeq(path, 1, Len(QuarantineDir)) = QuarantineDir

\* C26: undo_last_run acts on no row but the MOVE rows whose hub-side file
\* exists when the loop comes to them: restored + conflicts is the number of
\* those rows, every other file of the hub stays where it was, the files that
\* leave the hub are those rows' hub-side files, no file of the inbox is
\* lost or changed and the inbox gains one file per restored row; the call
\* returns without an error.
C26_UndoOnlyMoveRowsFound ==
  Undone =>
    LET found == RowsFound(UndoneRows)
        locs == {CurrentLocation(UndoneRows[k]) : k \in found}
    IN  /\ LastOp.restored + LastOp.conflicts = Cardinality(found)
        /\ \A q \in DOMAIN pre.hub.files :
             IF q \in locs THEN q \notin DOMAIN hub.files
             ELSE UnderQuarantine(q)
                  \/ (q \in DOMAIN hub.files /\ hub.files[q] = pre.hub.files[q])
        /\ \A q \in DOMAIN pre.inbox.files :
             q \in DOMAIN inbox.files /\ inbox.files[q] = pre.inbox.files[q]
        /\ Cardinality(DOMAIN inbox.files \ DOMAIN pre.inbox.files) = LastOp.restored

\* C26 witness: an undo over an audit file with a row whose action is not
\* MOVE and a MOVE row whose hub-side file does not exist.
C26_Witness ==
  /\ Undone
  /\ \E k \in DOMAIN UndoneRows : UndoneRows[k].action # "MOVE"
  /\ \E k \in DOMAIN UndoneRows :
       UndoneRows[k].action = "MOVE" /\ k \notin RowsFound(UndoneRows)

\* The move-mode runs made before the call made last.
MoveRunsBefore ==
  {k \in 1..(Len(history) - 1) : history[k].kind = "run" /\ history[k].mode = "move"}

LatestMoveRun == CHOOSE k \in MoveRunsBefore : \A j \in MoveRunsBefore : j <= k

\* Where run put the file of an audit row: dest_path of that file.
RowDest(row) ==
  IF row.bucket = "UNSORTED"
  THEN <<"UNSORTED", row.pack>> \o Tail(row.file)
  ELSE <<row.category, row.bucket, row.pack>> \o Tail(row.file)

\* The files an earlier move run than the latest moved into the hub, that
\* were still there before the call made last.
MovedEarlier ==
  {RowDest(history[k].audit[j]) :
     <<k, j>> \in {x \in (MoveRunsBefore \ {LatestMoveRun}) \X (1..MaxFiles) :
                    /\ x[2] \in DOMAIN history[x[1]].audit
                    /\ history[x[1]].audit[x[2]].action = "MOVE"}}
  \cap DOMAIN pre.hub.files

\* C27: undo_last_run reads the audit file of the latest move-mode run,
\* whatever runs of other modes came after it, and leaves every file that
\* an earlier move run moved into the hub where it is.
C27_UndoLatestMoveRunOnly ==
  (Len(history) > 0 /\ LastOp.kind = "undo") =>
    /\ LastOp.error = "" <=> MoveRunsBefore # {}
    /\ Undone =>
         /\ LastOp.audit_file = history[LatestMoveRun].run_id
         /\ \A q \in MovedEarlier :
              q \in DOMAIN hub.files /\ hub.files[q] = pre.hub.files[q]

\* Whether text is block within white space only.
Padded(text, block) ==
  \E i \in 1..Len(text) :
    /\ i + Len(block) - 1 <= Len(text)
    /\ SubSeq(text, i, i + Len(block) - 1) = block
    /\ \A j \in DOMAIN text : (j < i \/ j > i + Len(block) - 1) => text[j] \in Whitespace

\* C28: write_nfo leaves the file as it is when it holds the contents of the
\* style already, within surrounding white space or not; otherwise the file
\* holds exactly those contents after the call; nothing else in the folder
\* changes, and a call with the arguments of the call before it writes
\* nothing.
C28_WriteNfoIdempotent ==
  style_io.op = "write_nfo" =>
    LET nfo_path == <<"Kicks.nfo">>
        before == style_io.pre_dir
        after == style_io.dir
        contents == nfo_contents(style_io.call.style)
        same == /\ nfo_path \in DOMAIN before.files
                /\ before.files[nfo_path].kind = "nfo"
                /\ Padded(before.files[nfo_path].text, contents)
    IN  /\ same => (after = before /\ ~style_io.call.written)
        /\ ~same => /\ style_io.call.written
                    /\ after.files = (nfo_path :> NfoText(contents))
                    /\ after.dirs = before.dirs
        /\ (style_io.prev.name = "write_nfo" /\ style_io.prev.style = style_io.call.style)
             => (after = before /\ ~style_io.call.written)

\* C28 witness: a write_nfo over a sidecar that holds the contents within
\* white space, which is left as it is.
C28_Witness ==
  /\ style_io.op = "write_nfo"
  /\ ~style_io.call.written
  /\ style_io.dir.files[<<"Kicks.nfo">>] # NfoText(nfo_contents(style_io.call.style))

SameNoCase(a, b) == Lower(Chars[a]) = Lower(Chars[b])

\* Whether style is the first style found for name in table: that of the
\* entry named exactly name, or else that of the first entry whose name
\* matches name case-insensitively.
FoundIn(table, name, style) ==
  \E i \in DOMAIN table :
    /\ table[i].style = style
    /\ \/ table[i].name = name
       \/ /\ SameNoCase(table[i].name, name)
          /\ \A j \in DOMAIN table : table[j].name # name
          /\ \A j \in 1..(i - 1) : ~SameNoCase(table[j].name, name)

NoneIn(table, name) == \A i \in DOMAIN table : ~SameNoCase(table[i].name, name)

\* C30: resolve_style returns the style of the bucket entry (exact name, else
\* first case-insensitive match), else that of the category entry (the same
\* way), else the default style; a warning is printed only when the default
\* is returned, and never twice for one pair of bucket and category.
C30_ResolveOrderAndWarnOnce ==
  /\ style_io.op = "resolve_style" =>
       LET buckets == style_io.svc.styles.buckets
           categories == style_io.svc.styles.categories
           bucket == style_io.call.bucket
           category == style_io.call.category
           style == style_io.call.style
           warned == Len(style_io.svc.printed) - Len(style_io.pre_svc.printed)
       IN  /\ style_io.svc.styles = style_io.pre_svc.styles
           /\ IF ~NoneIn(buckets, bucket) THEN FoundIn(buckets, bucket, style)
              ELSE IF ~NoneIn(categories, category)
              THEN FoundIn(categories, category, style)
              ELSE style = DEFAULT_STYLE
           /\ warned \in {0, 1}
           /\ warned = 1 => /\ NoneIn(buckets, bucket)
                            /\ NoneIn(categories, category)
                            /\ style_io.svc.printed[Len(style_io.svc.printed)]
                                 = <<bucket, category>>
  /\ style_io.op # "none" =>
       \A i, j \in DOMAIN style_io.svc.printed :
         style_io.svc.printed[i] = style_io.svc.printed[j] => i = j

\* C30 witness: a pair that has no style is resolved for the second time in
\* a row, on a service whose category table holds two names, and one warning
\* has been printed.
C30_Witness ==
  /\ style_io.op = "resolve_style"
  /\ style_io.call.style = DEFAULT_STYLE
  /\ style_io.prev = style_io.call
  /\ Len(style_io.svc.printed) = 1
  /\ Len(style_io.svc.styles.categories) = 2

\* C29: a run that follows a finished run, over the inbox and the hub as
\* that run left them, writes no sidecar.
C29_SecondRunWritesNoSidecar ==
  (/\ Len(history) >= 2
   /\ IsDoneRun(LastOp)
   /\ IsDoneRun(history[Len(history) - 1]))
    => LastOp.nfo_writes = 0

\* C31: the rows of the page keep the chosen bucket, the original bucket, the
\* confidence and the candidates of the loaded report whatever overrides are
\* applied, and every recorded override of a file of the report has the
\* report's bucket of that file as its original_bucket.
C31_OverridesKeepOriginal ==
  /\ DOMAIN page.rows = DOMAIN page.report
  /\ \A source \in DOMAIN page.rows :
       /\ page.rows[source].chosen_bucket = PageFile(page.report[source]).bucket
       /\ page.rows[source].original_bucket = PageFile(page.report[source]).bucket
       /\ page.rows[source].confidence_ratio = PageFile(page.report[source]).confidence
       /\ page.rows[source].top_3_candidates = PageFile(page.report[source]).top_candidates
  /\ \A source \in DOMAIN page.overrides \cap DOMAIN page.report :
       page.overrides[source].original_bucket = PageFile(page.report[source]).bucket

C38_OverridesMatchRows ==
  /\ DOMAIN page.overrides =
       {source \in DOMAIN page.rows :
          page.rows[source].effective_bucket # page.rows[source].original_bucket}
  /\ \A source \in DOMAIN page.overrides :
       page.overrides[source].override_bucket = page.rows[source].effective_bucket

\* Where a file that was at path p of the inbox before the last run is in the
\* inbox after it, if it is there: a loose file that is not ignored is in the
\* Loose folder of the run.
InboxPathNow(p) ==
  IF Len(p) = 1 /\ ~should_ignore(p[1]) THEN <<LooseName(clock)>> \o p ELSE p

\* The destination path in the hub of the file at path q of a pack.
DestinationOf(q) ==
  IF Classification[Last(q)].bucket = None
  THEN <<"UNSORTED", q[1]>> \o Tail(q)
  ELSE <<Classification[Last(q)].category, Classification[Last(q)].bucket, q[1]>> \o Tail(q)

AtInboxPath(p) ==
  /\ InboxPathNow(p) \in DOMAIN inbox.files
  /\ inbox.files[InboxPathNow(p)] = pre.inbox.files[p]

AtDestination(p) ==
  /\ Len(InboxPathNow(p)) > 1
  /\ DestinationOf(InboxPathNow(p)) \in DOMAIN hub.files
  /\ hub.files[DestinationOf(InboxPathNow(p))] = pre.inbox.files[p]

\* The user's files of the hub are where they were before the last call,
\* with their content.
HubFilesKept ==
  \A q \in DOMAIN pre.hub.files :
    pre.hub.files[q].kind = "data"
      => (q \in DOMAIN hub.files /\ hub.files[q] = pre.hub.files[q])

EntryPositions(rep) ==
  {x \in (DOMAIN rep.packs) \X (1..MaxFiles) : x[2] \in DOMAIN rep.packs[x[1]].files}

EntryAt(rep, x) == rep.packs[x[1]].files[x[2]]

\* C33: in every report the counters agree with the file entries:
\* files_processed is their number, files_moved the number with action MOVE,
\* files_copied the number with action COPY, unsorted the number with bucket
\* UNSORTED; files_moved is 0 unless the mode is move and files_copied is 0
\* unless the mode is copy.
C33_CountersMatchEntries ==
  \A i \in DOMAIN history :
    IsDoneRun(history[i]) =>
      LET rep == history[i].report
          n(S) == Cardinality(S)
      IN  /\ rep.files_processed = n(EntryPositions(rep))
          /\ rep.files_moved = n({x \in EntryPositions(rep) : EntryAt(rep, x).action = "MOVE"})
          /\ rep.files_copied = n({x \in EntryPositions(rep) : EntryAt(rep, x).action = "COPY"})
          /\ rep.unsorted = n({x \in EntryPositions(rep) : EntryAt(rep, x).bucket = "UNSORTED"})
          /\ rep.mode # "move" => rep.files_moved = 0
          /\ rep.mode # "copy" => rep.files_copied = 0

\* C33 witness: the report of a copy run with an entry copied, an entry
\* skipped and an entry under UNSORTED.
C33_Witness ==
  /\ Len(history) > 0
  /\ IsDoneRun(LastOp)
  /\ LastOp.mode = "copy"
  /\ LastOp.report.files_copied >= 1
  /\ LastOp.report.files_copied < LastOp.report.files_processed
  /\ LastOp.report.unsorted >= 1

\* The call before the last.
PrevOp == history[Len(history) - 1]

\* C34: an undo_last_run directly after an undo_last_run moves nothing: the
\* inbox and the hub (quarantine included) are as the first call left them,
\* and it returns restored = 0 and conflicts = 0 for the same audit file (or
\* the same error as the first call).
C34_UndoTwice ==
  (Len(history) >= 2 /\ LastOp.kind = "undo" /\ PrevOp.kind = "undo") =>
    /\ inbox = pre.inbox
    /\ hub = pre.hub
    /\ LastOp.error = PrevOp.error
    /\ LastOp.error = "" =>
         /\ LastOp.restored = 0
         /\ LastOp.conflicts = 0
         /\ LastOp.audit_file = PrevOp.audit_file

\* C34 witness: the second of two undo calls, the first of which restored a
\* file and put another into quarantine.
C34_Witness ==
  /\ Len(history) >= 2
  /\ LastOp.kind = "undo"
  /\ PrevOp.kind = "undo"
  /\ PrevOp.error = ""
  /\ PrevOp.restored >= 1
  /\ PrevOp.conflicts >= 1

\* C35: a repair_styles directly after a copy or move run that returned its
\* report finds every sidecar of the run with the content it computes itself:
\* it reports updated = 0.
C35_RepairAgreesWithRun ==
  (/\ Len(history) >= 2
   /\ LastOp.kind = "repair"
   /\ LastOp.status = "done"
   /\ IsDoneRun(PrevOp)
   /\ PrevOp.mode \in {"copy", "move"})
    => LastOp.updated = 0

\* C36: a repair_styles directly after a repair_styles changes no file and
\* returns created = 0, updated = 0 and removed = 0.
C36_RepairTwice ==
  (/\ Len(history) >= 2
   /\ LastOp.kind = "repair"
   /\ PrevOp.kind = "repair"
   /\ PrevOp.status = "done")
    => /\ LastOp.status = "done"
       /\ LastOp.created = 0
       /\ LastOp.updated = 0
       /\ LastOp.removed = 0
       /\ hub = pre.hub
       /\ inbox = pre.inbox

\* C36 witness: the second of two repair_styles calls, the first of which
\* created a sidecar, rewrote another and removed a third.
C36_Witness ==
  /\ Len(history) >= 2
  /\ LastOp.kind = "repair"
  /\ PrevOp.kind = "repair"
  /\ PrevOp.status = "done"
  /\ PrevOp.created >= 1
  /\ PrevOp.updated >= 1
  /\ PrevOp.removed >= 1

\* The contents pack_style_from_bucket is documented to give for a bucket
\* style: its colour and icon with the default sort group.
PackContentsDropped(bucket_style) ==
  nfo_contents([Color |-> bucket_style.Color,
                IconIndex |-> bucket_style.IconIndex,
                SortGroup |-> DEFAULT_STYLE.SortGroup])

\* C39: the style of a pack reuses the Color and the IconIndex of the bucket
\* style and has the default SortGroup, not the bucket's: after a copy or
\* move run the sidecar of the pack folder of every routed file holds that
\* style.
C39_PackStyleDropsSortGroup ==
  (/\ Len(history) > 0
   /\ IsDoneRun(LastOp)
   /\ LastOp.mode \in {"copy", "move"})
    => \A x \in EntryPositions(LastOp.report) :
         LET e == EntryAt(LastOp.report, x)
             pack == LastOp.report.packs[x[1]].pack
             nfo_path == NfoPath(<<e.category, e.bucket>>, pack)
         IN  e.bucket # "UNSORTED" =>
               /\ nfo_path \in DOMAIN hub.files
               /\ strip(read_text(hub.files[nfo_path]))
                    = strip(PackContentsDropped(resolve_style(e.bucket, e.category)))

================================================================================
